---- MODULE Spec2Model ----
(***************************************************************************)
(* Model of the UART register transport of uart_register_interface.py:     *)
(* the CRC-8 frame codec, write_register and read_register with their      *)
(* statistics counters, and the event history the transport appends to.    *)
(*                                                                         *)
(* Python integers are unbounded, and TLC's are 32 bits wide, so a Python  *)
(* int is represented as a sign and a magnitude in base 256, least         *)
(* significant digit first and without leading zero digits:                *)
(*     [neg |-> FALSE, mag |-> <<16, 1>>]  is  0x0110.                     *)
(* Bytes on the wire are numbers 0..255, packets are sequences of bytes    *)
(* (TLA+ sequences start at index 1: byte k of the source is index k+1).   *)
(***************************************************************************)
EXTENDS Integers, Sequences, FiniteSets, TLC

VARIABLES
    serial,            \* self.serial: "None", "open" (is_open) or "closed"
    stats,             \* self._stats
    enable_events,     \* self._enable_events
    event_monitor_running, \* self._event_monitor_running
    event_history,     \* self._event_history
    pc,                \* position of the caller thread inside a register call
    op,                \* the call in progress or last returned: "write", "read", "none"
    address,           \* argument of the call
    value,             \* argument of write_register (a Python int)
    packet,            \* local: the request packet
    response,          \* local: what serial.read(10) returned
    result,            \* what the call returned or raised
    io,                \* the stream operations the call has performed, in order
    fault,             \* what the line did to the device's reply of this call
    stats0,            \* the counters when the call was entered
    history0,          \* the event history when the call was entered
    ncalls,            \* number of register calls entered
    crc_in,            \* argument of the last _calculate_crc call (SpecCodec)
    crc_out,           \* its result; -1 before the first call
    frame,             \* SpecThreads: each thread's position and locals
    handed,            \* SpecThreads: packets handed to the stream
    ended,             \* SpecThreads: reads ended, by outcome
    snapshot,          \* SpecThreads: the last get_statistics() result
    resetting,         \* SpecThreads: the reset_statistics() call in progress
    event_handlers,    \* self._event_handlers: kind -> list of handlers
    event_lock,        \* self._event_lock: "free" or the thread holding it
    emitted,           \* number of _emit_event calls made
    dispatch,          \* the _emit_event call in progress or just returned
    registry_call,     \* the last register/unregister_event_handler call
    registrations,     \* number of register_event_handler calls made
    custom_conditions, \* self._custom_conditions: (name, condition, event_type)
    prev_state,        \* self._prev_state; <<>> is None
    cycle,             \* the monitor thread's sampling cycle and its locals
    monitor_threads,   \* the threads start_event_monitoring has created; the
                       \* last is self._event_monitor_thread
    lifecycle_call,    \* the last start/stop_event_monitoring call
    history_call,      \* the last get_event_history call
    spi_call,          \* the write_spi call in progress or last returned
    eeprom             \* an EEPROMImage object and the file it saved

vars == <<serial, stats, enable_events, event_monitor_running, event_history,
          pc, op, address, value, packet, response, result, io, fault,
          stats0, history0, ncalls, crc_in, crc_out,
          frame, handed, ended, snapshot, resetting,
          event_handlers, event_lock, emitted, dispatch, registry_call,
          registrations, custom_conditions, prev_state, cycle,
          monitor_threads, lifecycle_call, history_call, spi_call, eeprom>>

transport_vars == <<serial, stats, enable_events, event_monitor_running,
                    event_history, pc, op, address, value, packet, response,
                    result, io, fault, stats0, history0, ncalls>>

\* the variables of the calls that leave the state of the interface alone
codec_vars == <<crc_in, crc_out, history_call, spi_call, eeprom>>

thread_vars == <<frame, handed, ended, snapshot, resetting>>

\* the variables the caller-only transport actions and the codec leave alone
event_vars == <<event_handlers, event_lock, emitted, dispatch, registry_call,
                registrations>>

monitor_vars == <<custom_conditions, prev_state, cycle, monitor_threads,
                  lifecycle_call>>

beyond_vars == <<thread_vars, event_vars, monitor_vars>>

(***************************************************************************)
(* Bounds of the model.                                                    *)
(***************************************************************************)
\* register calls entered in one behaviour of Spec
MaxCalls == 2
\* length of the byte sequences handed to _calculate_crc in SpecCodec
MaxCrcLen == 3
\* register calls entered in one behaviour of SpecCall
MaxWideCalls == 1
\* calls each thread makes in one behaviour of SpecThreads
MaxThreadCalls == 2
\* events emitted in one behaviour of SpecHistory: past the history's size
MaxEmits == 1002
\* register_event_handler calls and events emitted in one behaviour of
\* SpecEvents
MaxRegistrations == 3
MaxEventEmits == 2
\* sampling cycles in one behaviour of SpecMonitor
MaxCycles == 2

(***************************************************************************)
(* Bit operations on bytes, as Python's ^, << and & compute them.          *)
(***************************************************************************)
RECURSIVE xor(_, _)
\* a ^ b for non-negative a, b
xor(a, b) ==
    IF a = 0 THEN b
    ELSE IF b = 0 THEN a
    ELSE (((a % 2) + (b % 2)) % 2) + 2 * xor(a \div 2, b \div 2)

\* 1 << n for n in 0..8
pow2(n) == <<1, 2, 4, 8, 16, 32, 64, 128, 256>>[n + 1]

\* x & 0xFF for non-negative x
and_FF(x) == x % 256

\* x & 0x80 for a byte x (0 or 0x80)
and_80(x) == ((x \div 128) % 2) * 128

\* Command.WRITE, Command.READ
WRITE == 1
READ == 2

\* self._max_history_size
max_history_size == 1000

(***************************************************************************)
(* Frame codec: _crc8_update and _calculate_crc.                           *)
(***************************************************************************)
\* _crc8_update with the mask dropped: crc = temp << 1
crc8_update_unmasked(crc, data) ==
    LET temp == xor(crc, data)
        shifted == temp * 2
    IN  IF and_80(temp) # 0 THEN xor(shifted, 7) ELSE shifted

\* _crc8_update with the polynomial never folded in: crc = (temp << 1) & 0xFF
crc8_update_shift_only(crc, data) == and_FF(xor(crc, data) * 2)

RECURSIVE shift_steps(_, _)
\* n MSB-first steps of the bitwise CRC-8 with polynomial 0x07: shift left,
\* and fold the polynomial in when the bit shifted out was set
shift_steps(crc, n) ==
    IF n = 0 THEN crc
    ELSE shift_steps(IF and_80(crc) # 0 THEN xor(and_FF(crc * 2), 7)
                     ELSE and_FF(crc * 2),
                     n - 1)

\* the update of the standard bitwise algorithm: eight steps for the byte
crc8_update_eight_steps(crc, data) == shift_steps(xor(crc, data), 8)

crc8_update(crc, data) ==
    LET temp == xor(crc, data)
        shifted == and_FF(temp * 2)
    IN  IF and_80(temp) # 0 THEN xor(shifted, 7) ELSE shifted

RECURSIVE crc_loop(_, _, _)
\* the for loop of _calculate_crc, from index i on
crc_loop(crc, data, i) ==
    IF i > Len(data) THEN crc
    ELSE crc_loop(crc8_update(crc, data[i]), data, i + 1)

calculate_crc(data) == crc_loop(0, data, 1)

(***************************************************************************)
(* Python integers and struct.pack / struct.unpack with format '>Q'.       *)
(***************************************************************************)
\* digit i (i = 0 the least significant) of a magnitude; 0 beyond its length
digit(mag, i) == IF i + 1 <= Len(mag) THEN mag[i + 1] ELSE 0

RECURSIVE strip(_)
\* a digit sequence without its leading (most significant) zero digits
strip(mag) ==
    IF mag = <<>> THEN <<>>
    ELSE IF mag[Len(mag)] = 0 THEN strip(SubSeq(mag, 1, Len(mag) - 1))
    ELSE mag

\* the int with the given digits
py_int(neg, mag) ==
    LET m == strip(mag) IN [neg |-> neg /\ m # <<>>, mag |-> m]

RECURSIVE increment(_, _)
\* digits d (8 of them) plus one from digit i on, modulo 2^64
increment(d, i) ==
    IF i > 8 THEN d
    ELSE IF d[i] = 255 THEN increment([d EXCEPT ![i] = 0], i + 1)
    ELSE [d EXCEPT ![i] = d[i] + 1]

\* v & 0xFFFFFFFFFFFFFFFF: Python's & on a negative int works on its
\* infinite two's complement, so the low 64 bits of -m are ~m + 1
and_FFFFFFFFFFFFFFFF(v) ==
    LET low == [i \in 1..8 |-> digit(v.mag, i - 1)]
    IN  IF v.neg
        THEN py_int(FALSE, increment([i \in 1..8 |-> 255 - low[i]], 1))
        ELSE py_int(FALSE, low)

\* struct.pack('>Q', v) for 0 <= v < 2^64: 8 bytes, most significant first
struct_pack_Q(v) == [i \in 1..8 |-> digit(v.mag, 8 - i)]

\* struct.unpack('<Q', b)[0]: the first byte taken as the least significant
struct_unpack_Q_little_endian(b) == py_int(FALSE, [i \in 1..8 |-> b[i]])

\* struct.unpack('>Q', b)[0] for 8 bytes b
struct_unpack_Q(b) == py_int(FALSE, [i \in 1..8 |-> b[9 - i]])

(***************************************************************************)
(* Request packets: lines 259-270 of write_register and 309-317 of         *)
(* read_register.                                                          *)
(***************************************************************************)
\* write_register packing the value with '<Q', least significant byte first
write_packet_little_endian(a, v) ==
    LET m == and_FFFFFFFFFFFFFFFF(v)
        body == <<WRITE, a>> \o [i \in 1..8 |-> digit(m.mag, i - 1)]
    IN  Append(body, calculate_crc(body))

write_packet(a, v) ==
    LET body == <<WRITE, a>> \o struct_pack_Q(and_FFFFFFFFFFFFFFFF(v))
    IN  Append(body, calculate_crc(body))

read_packet(a) ==
    LET body == <<READ, a>> \o [i \in 1..8 |-> 0]
    IN  Append(body, calculate_crc(body))

(***************************************************************************)
(* Events.  An IOEvent is modelled by its event_type, register_addr and    *)
(* value fields; the timestamp and the formatted data strings are left     *)
(* out.                                                                    *)
(***************************************************************************)
\* IOLineEvent.REGISTER_WRITE, IOLineEvent.REGISTER_READ
REGISTER_WRITE == 81
REGISTER_READ == 82

IOEvent(event_type, register_addr, val) ==
    [event_type |-> event_type, register_addr |-> register_addr, value |-> val]

emit_event_unrecorded(history, event) == history

\* _emit_event: the history after the append and the eviction of the oldest.
\* Used where no handler is registered, so that the dispatch loop calls
\* nothing; the emit with its handlers is emit_event_append and the steps
\* after it.
emit_event(history, event) ==
    LET appended == Append(history, event)
    IN  IF Len(appended) > max_history_size THEN Tail(appended) ELSE appended

(***************************************************************************)
(* Inputs of the model.                                                    *)
(***************************************************************************)
\* addresses tried: both register ranges, their neighbours, and numbers
\* that are no byte at all
Addresses == -2..24 \cup {255, 256}

\* the ends of both ranges and their neighbours
SomeAddresses == {-1, 0, 5, 6, 15, 16, 21, 22}

\* values written: 0, 0x2A, 0x123456789ABCDEF0, 2^64 - 1, 2^64 + 0x2A, -1,
\* -0x100
Values ==
    { py_int(FALSE, <<>>),
      py_int(FALSE, <<42>>),
      py_int(FALSE, <<240, 222, 188, 154, 120, 86, 52, 18>>),
      py_int(FALSE, <<255, 255, 255, 255, 255, 255, 255, 255>>),
      py_int(FALSE, <<42, 0, 0, 0, 0, 0, 0, 0, 1>>),
      py_int(TRUE, <<1>>),
      py_int(TRUE, <<0, 1>>) }

\* 0x123456789ABCDEF0, 2^64 + 0x2A, -0x100
SomeValues ==
    { py_int(FALSE, <<240, 222, 188, 154, 120, 86, 52, 18>>),
      py_int(FALSE, <<42, 0, 0, 0, 0, 0, 0, 0, 1>>),
      py_int(TRUE, <<0, 1>>) }

\* register contents the device replies with (big-endian)
ReplyData ==
    { <<0, 0, 0, 0, 0, 0, 0, 0>>,
      <<0, 0, 0, 0, 0, 0, 0, 42>>,
      <<18, 52, 86, 120, 154, 188, 222, 240>> }

SomeReplyData ==
    { <<0, 0, 0, 0, 0, 0, 0, 0>>,
      <<18, 52, 86, 120, 154, 188, 222, 240>> }

\* the reply the device sends for register contents d
device_reply(d) ==
    LET body == <<READ>> \o d IN Append(body, calculate_crc(body))

\* what the line does to a reply before serial.read(10) returns it
\*   <<"flip", i, b>>: bit b of byte i (index from 1) inverted
\*   <<"short", n, 0>>: only the first n bytes arrive before the timeout
\*   <<"header", h, 0>>: the header replaced by h
\*   <<"trailer", x, 0>>: x added to the trailer
\*   <<"header_trailer", h, x>>: both
\*   <<"header_crc", h, 0>>: the header replaced by h, the trailer matching it
Faults ==
    {<<"none", 0, 0>>}
    \cup {<<"flip", i, b>> : i \in 1..10, b \in 0..7}
    \cup {<<"short", n, 0>> : n \in 0..9}
    \cup {<<"header", h, 0>> : h \in {0, 1, 3, 255}}
    \cup {<<"trailer", x, 0>> : x \in {1, 85, 128}}
    \cup {<<"header_trailer", h, x>> : h \in {0, 1}, x \in {1}}
    \cup {<<"header_crc", h, 0>> : h \in {0, 1, 255}}

SomeFaults ==
    {<<"none", 0, 0>>}
    \cup {<<"flip", 1, 1>>, <<"flip", 2, 0>>, <<"flip", 10, 7>>}
    \cup {<<"short", n, 0>> : n \in {0, 1, 9}}
    \cup {<<"header", h, 0>> : h \in {1, 255}}
    \cup {<<"trailer", x, 0>> : x \in {1, 85}}
    \cup {<<"header_trailer", h, x>> : h \in {0}, x \in {1}}
    \cup {<<"header_crc", h, 0>> : h \in {1}}

flip_bit(byte, b) ==
    IF (byte \div pow2(b)) % 2 = 1 THEN byte - pow2(b) ELSE byte + pow2(b)

corrupt(reply, f) ==
    CASE f[1] = "none" -> reply
      [] f[1] = "flip" -> [reply EXCEPT ![f[2]] = flip_bit(@, f[3])]
      [] f[1] = "short" -> SubSeq(reply, 1, f[2])
      [] f[1] = "header" -> [reply EXCEPT ![1] = f[2]]
      [] f[1] = "trailer" -> [reply EXCEPT ![10] = (@ + f[2]) % 256]
      [] f[1] = "header_trailer" ->
            [reply EXCEPT ![1] = f[2], ![10] = (@ + f[3]) % 256]
      [] f[1] = "header_crc" ->
            LET body == <<f[2]>> \o SubSeq(reply, 2, 9)
            IN  Append(body, calculate_crc(body))

(***************************************************************************)
(* Results of a call.                                                      *)
(***************************************************************************)
zero == py_int(FALSE, <<>>)
no_fault == <<"none", 0, 0>>
pending == [status |-> "pending", value |-> zero]
raised(exception) == [status |-> exception, value |-> zero]
returned_None == [status |-> "None", value |-> zero]
returned_True == [status |-> "True", value |-> zero]
returned(v) == [status |-> "value", value |-> v]

stream_call(name, arg) == [call |-> name, arg |-> arg]

(***************************************************************************)
(* Threads: the caller's thread and the background poller that             *)
(* start_event_monitoring creates (lines 650-654).                         *)
(***************************************************************************)
Threads == {"caller", "poller"}

\* the ways a read ends (check_response)
Outcomes == {"timeout", "header", "crc", "ok"}

\* self._prev_state as __init__ leaves it (lines 150-158)
no_previous_state == [system_status |-> <<>>, currents |-> <<>>, voltages |-> <<>>]

\* the n-th sampling cycle at its beginning: the position in
\* _check_io_changes, its locals, and what was there when it began (the
\* snapshots, the length of the history, the status the cycle before read)
\* (reads: one entry per read_register call of the cycle, in order)
new_cycle(n, previous_state, history_length, previous_status) ==
    [step |-> "status", n |-> n, status |-> <<>>, currents |-> <<>>,
     evaluated |-> <<>>, prev0 |-> previous_state,
     history0 |-> history_length, previous |-> previous_status,
     reads |-> <<>>]

\* no start/stop_event_monitoring call made yet
no_lifecycle_call ==
    [name |-> "none", running |-> FALSE, threads |-> 0, outcome |-> "none"]

\* no monitor thread
no_cycle == [new_cycle(0, no_previous_state, 0, <<>>) EXCEPT !.step = "none"]

\* a thread between two calls, having made n of them
idle_frame(n) ==
    [pc |-> "idle", op |-> "none", address |-> 0, value |-> zero,
     response |-> <<>>, loaded |-> 0, calls |-> n]

\* no get_event_history call, no write_spi call made yet; no EEPROMImage
\* object created
no_history_call ==
    [name |-> "none", event_type |-> <<>>, limit |-> <<>>, history |-> <<>>,
     returned |-> <<>>]

no_spi_call ==
    [pc |-> "none", channel |-> 0, data |-> zero, outcome |-> pending,
     sent |-> <<>>, calls |-> 0]

no_eeprom == [pc |-> "none"]

(***************************************************************************)
(* Initial state: the object after __init__ (lines 127-161).               *)
(***************************************************************************)
Init ==
    /\ serial = "None"
    /\ stats = [commands_sent |-> 0, responses_received |-> 0,
                crc_errors |-> 0, timeouts |-> 0]
    /\ enable_events \in BOOLEAN
    /\ event_monitor_running = FALSE
    /\ event_history = <<>>
    /\ pc = "idle"
    /\ op = "none"
    /\ address = 0
    /\ value = zero
    /\ packet = <<>>
    /\ response = <<>>
    /\ result = pending
    /\ io = <<>>
    /\ fault = no_fault
    /\ stats0 = stats
    /\ history0 = <<>>
    /\ ncalls = 0
    /\ crc_in = <<>>
    /\ crc_out = -1
    /\ frame = [t \in Threads |-> idle_frame(0)]
    /\ handed = 0
    /\ ended = [o \in Outcomes |-> 0]
    /\ snapshot = [stats |-> stats, zeroed |-> 0, before |-> stats]
    /\ resetting = [active |-> FALSE, zeroed |-> 0, before |-> stats,
                    window |-> <<>>]
    /\ event_handlers = <<>>
    /\ event_lock = "free"
    /\ emitted = 0
    /\ dispatch = [event |-> <<>>, registered |-> <<>>, invoked |-> <<>>,
                   errors |-> 0, outcome |-> "none"]
    /\ registry_call = [name |-> "none", kind |-> 0, handler |-> "none",
                        before |-> <<>>, outcome |-> "none"]
    /\ registrations = 0
    /\ custom_conditions = <<>>
    /\ prev_state = no_previous_state
    /\ cycle = no_cycle
    /\ monitor_threads = <<>>
    /\ lifecycle_call = no_lifecycle_call
    /\ history_call = no_history_call
    /\ spi_call = no_spi_call
    /\ eeprom = no_eeprom

between_calls == pc = "idle"

\* the state a caller leaves behind when it makes a call that is no register call
leave_call ==
    /\ pc' = "idle"
    /\ op' = "none"
    /\ result' = pending
    /\ io' = <<>>
    /\ fault' = no_fault
    /\ response' = <<>>
    /\ packet' = <<>>
    /\ stats0' = stats'
    /\ history0' = event_history'
    /\ address' = 0
    /\ value' = zero
    /\ UNCHANGED ncalls

\* a register call has returned or raised: its frame is discarded
return_to_caller ==
    /\ pc = "done"
    /\ UNCHANGED <<serial, stats, enable_events, event_monitor_running,
                   event_history, codec_vars, beyond_vars>>
    /\ leave_call

(***************************************************************************)
(* open, close, reset_statistics.                                          *)
(***************************************************************************)
\* open(), the stream opening successfully; start_event_monitoring sets the
\* running flag (the poller's own steps are not part of this specification)
open ==
    /\ between_calls
    /\ serial' = "open"
    /\ event_monitor_running' = (event_monitor_running \/ enable_events)
    /\ UNCHANGED <<stats, enable_events, event_history, codec_vars, beyond_vars>>
    /\ leave_call

close ==
    /\ between_calls
    /\ event_monitor_running' = FALSE
    /\ serial' = IF serial = "open" THEN "closed" ELSE serial
    /\ UNCHANGED <<stats, enable_events, event_history, codec_vars, beyond_vars>>
    /\ leave_call

reset_statistics ==
    /\ between_calls
    /\ stats' = [key \in DOMAIN stats |-> 0]
    /\ UNCHANGED <<serial, enable_events, event_monitor_running, event_history,
                   codec_vars, beyond_vars>>
    /\ leave_call

(***************************************************************************)
(* write_register (lines 238-287), one action per statement that touches   *)
(* the stream, the counters or the history.                                *)
(***************************************************************************)
\* the range check of line 253 with its upper end excluded
valid_control_address_exclusive(a) == 0 <= a /\ a < 5

\* line 253
valid_control_address(a) == 0 <= a /\ a <= 5

\* line 303
valid_status_address(a) == 16 <= a /\ a <= 21

\* the check of lines 256 and 306 without its is_open half
stream_open_not_None == serial # "None"

\* lines 256 and 306: self.serial and self.serial.is_open
stream_open == serial = "open"

\* what every call entry does to the model's bookkeeping
enter_call(name, a, v, limit) ==
    /\ between_calls
    /\ ncalls < limit
    /\ ncalls' = ncalls + 1
    /\ op' = name
    /\ address' = a
    /\ value' = v
    /\ io' = <<>>
    /\ fault' = no_fault
    /\ response' = <<>>
    /\ stats0' = stats
    /\ history0' = event_history
    /\ UNCHANGED <<serial, stats, enable_events, event_monitor_running,
                   event_history, codec_vars, beyond_vars>>

\* lines 253-270: the two checks, then the packet is built
write_register_begin(a, v, limit) ==
    /\ enter_call("write", a, v, limit)
    /\ IF ~valid_control_address(a)
       THEN /\ result' = raised("ValueError")
            /\ packet' = <<>>
            /\ pc' = "done"
       ELSE IF ~stream_open
       THEN /\ result' = raised("ConnectionError")
            /\ packet' = <<>>
            /\ pc' = "done"
       ELSE /\ result' = pending
            /\ packet' = write_packet(a, v)
            /\ pc' = "write_send"

\* write_register waiting for an acknowledgement after it sent the packet
write_register_send_and_wait ==
    /\ pc = "write_send"
    /\ io' = Append(Append(io, stream_call("write", packet)),
                    stream_call("read", <<10>>))
    /\ pc' = "write_count"
    /\ UNCHANGED <<serial, stats, enable_events, event_monitor_running,
                   event_history, op, address, value, packet, response, result,
                   fault, stats0, history0, ncalls, codec_vars, beyond_vars>>

\* line 273: self.serial.write(packet)
write_register_send ==
    /\ pc = "write_send"
    /\ io' = Append(io, stream_call("write", packet))
    /\ pc' = "write_count"
    /\ UNCHANGED <<serial, stats, enable_events, event_monitor_running,
                   event_history, op, address, value, packet, response, result,
                   fault, stats0, history0, ncalls, codec_vars, beyond_vars>>

write_register_uncounted ==
    /\ pc = "write_count"
    /\ pc' = "write_emit"
    /\ UNCHANGED <<serial, stats, enable_events, event_monitor_running,
                   event_history, op, address, value, packet, response, result,
                   io, fault, stats0, history0, ncalls, codec_vars, beyond_vars>>

\* line 274: self._stats['commands_sent'] += 1
write_register_count ==
    /\ pc = "write_count"
    /\ stats' = [stats EXCEPT !.commands_sent = @ + 1]
    /\ pc' = "write_emit"
    /\ UNCHANGED <<serial, enable_events, event_monitor_running, event_history,
                   op, address, value, packet, response, result, io, fault,
                   stats0, history0, ncalls, codec_vars, beyond_vars>>

\* lines 276-287: the REGISTER_WRITE event when events are enabled; return True
write_register_return ==
    /\ pc = "write_emit"
    /\ event_history' =
          IF enable_events
          THEN emit_event(event_history, IOEvent(REGISTER_WRITE, address, value))
          ELSE event_history
    /\ result' = returned_True
    /\ pc' = "done"
    /\ UNCHANGED <<serial, stats, enable_events, event_monitor_running, op,
                   address, value, packet, response, io, fault, stats0,
                   history0, ncalls, codec_vars, beyond_vars>>

write_register(addresses, values, limit) ==
    \/ \E a \in addresses, v \in values : write_register_begin(a, v, limit)
    \/ write_register_send
    \/ write_register_count
    \/ write_register_return

(***************************************************************************)
(* read_register (lines 289-361).                                          *)
(***************************************************************************)
\* lines 303-317
read_register_begin(a, limit) ==
    /\ enter_call("read", a, zero, limit)
    /\ IF ~valid_status_address(a)
       THEN /\ result' = raised("ValueError")
            /\ packet' = <<>>
            /\ pc' = "done"
       ELSE IF ~stream_open
       THEN /\ result' = raised("ConnectionError")
            /\ packet' = <<>>
            /\ pc' = "done"
       ELSE /\ result' = pending
            /\ packet' = read_packet(a)
            /\ pc' = "read_reset"

\* read_register clearing the inbound buffer after the request went out
read_register_reset_after_send ==
    /\ pc = "read_reset"
    /\ io' = Append(Append(io, stream_call("write", packet)),
                    stream_call("reset_input_buffer", <<>>))
    /\ pc' = "read_count"
    /\ UNCHANGED <<serial, stats, enable_events, event_monitor_running,
                   event_history, op, address, value, packet, response, result,
                   fault, stats0, history0, ncalls, codec_vars, beyond_vars>>

\* line 320: self.serial.reset_input_buffer()
read_register_reset ==
    /\ pc = "read_reset"
    /\ io' = Append(io, stream_call("reset_input_buffer", <<>>))
    /\ pc' = "read_send"
    /\ UNCHANGED <<serial, stats, enable_events, event_monitor_running,
                   event_history, op, address, value, packet, response, result,
                   fault, stats0, history0, ncalls, codec_vars, beyond_vars>>

\* line 321: self.serial.write(packet)
read_register_send ==
    /\ pc = "read_send"
    /\ io' = Append(io, stream_call("write", packet))
    /\ pc' = "read_count"
    /\ UNCHANGED <<serial, stats, enable_events, event_monitor_running,
                   event_history, op, address, value, packet, response, result,
                   fault, stats0, history0, ncalls, codec_vars, beyond_vars>>

\* line 322: self._stats['commands_sent'] += 1
read_register_count ==
    /\ pc = "read_count"
    /\ stats' = [stats EXCEPT !.commands_sent = @ + 1]
    /\ pc' = "read_recv"
    /\ UNCHANGED <<serial, enable_events, event_monitor_running, event_history,
                   op, address, value, packet, response, result, io, fault,
                   stats0, history0, ncalls, codec_vars, beyond_vars>>

\* line 325: response = self.serial.read(10); the stream returns what the
\* line delivered of the device's reply within the timeout
read_register_recv(d, f) ==
    /\ pc = "read_recv"
    /\ io' = Append(io, stream_call("read", <<10>>))
    /\ response' = corrupt(device_reply(d), f)
    /\ fault' = f
    /\ pc' = "read_check"
    /\ UNCHANGED <<serial, stats, enable_events, event_monitor_running,
                   event_history, op, address, value, packet, result, stats0,
                   history0, ncalls, codec_vars, beyond_vars>>

\* the checks without the CRC comparison
check_response_without_crc(r) ==
    IF Len(r) # 10 THEN "timeout"
    ELSE IF r[1] # 2 THEN "header"
    ELSE "ok"

\* the checks with the CRC compared before the header
check_response_crc_first(r) ==
    IF Len(r) # 10 THEN "timeout"
    ELSE IF calculate_crc(SubSeq(r, 1, 9)) # r[10] THEN "crc"
    ELSE IF r[1] # 2 THEN "header"
    ELSE "ok"

\* lines 327-344: the three checks of the response, in the order of the code
check_response(r) ==
    IF Len(r) # 10 THEN "timeout"
    ELSE IF r[1] # 2 THEN "header"
    ELSE IF calculate_crc(SubSeq(r, 1, 9)) # r[10] THEN "crc"
    ELSE "ok"

\* the counters with a short read left uncounted
stats_after_timeout_uncounted(st, outcome) ==
    CASE outcome = "timeout" -> st
      [] outcome = "header" -> st
      [] outcome = "crc" -> [st EXCEPT !.crc_errors = @ + 1]
      [] outcome = "ok" -> [st EXCEPT !.responses_received = @ + 1]

\* lines 328, 342 and 348: the counter each outcome increments
stats_after(st, outcome) ==
    CASE outcome = "timeout" -> [st EXCEPT !.timeouts = @ + 1]
      [] outcome = "header" -> st
      [] outcome = "crc" -> [st EXCEPT !.crc_errors = @ + 1]
      [] outcome = "ok" -> [st EXCEPT !.responses_received = @ + 1]

\* lines 327-361: the response is checked; a good one is unpacked, counted,
\* emitted as a REGISTER_READ event when events are enabled, and returned
read_register_check ==
    /\ pc = "read_check"
    /\ pc' = "done"
    /\ LET outcome == check_response(response)
           data == struct_unpack_Q(SubSeq(response, 2, 9))
       IN  /\ stats' = stats_after(stats, outcome)
           /\ IF outcome = "ok"
              THEN /\ event_history' =
                         IF enable_events
                         THEN emit_event(event_history,
                                         IOEvent(REGISTER_READ, address, data))
                         ELSE event_history
                   /\ result' = returned(data)
              ELSE /\ result' = returned_None
                   /\ UNCHANGED event_history
    /\ UNCHANGED <<serial, enable_events, event_monitor_running, op, address,
                   value, packet, response, io, fault, stats0, history0, ncalls,
                   codec_vars, beyond_vars>>

read_register(addresses, replies, faults, limit) ==
    \/ \E a \in addresses : read_register_begin(a, limit)
    \/ read_register_reset
    \/ read_register_send
    \/ read_register_count
    \/ \E d \in replies, f \in faults : read_register_recv(d, f)
    \/ read_register_check

Next ==
    \/ return_to_caller
    \/ open
    \/ close
    \/ reset_statistics
    \/ write_register(SomeAddresses, SomeValues, MaxCalls)
    \/ read_register(SomeAddresses, SomeReplyData, SomeFaults, MaxCalls)

Spec == Init /\ [][Next]_vars

(***************************************************************************)
(* Single-call specification: one register call on a fresh object, with    *)
(* every address around the two ranges, every value and reply of the       *)
(* model, and every single-bit error of the reply.                         *)
(***************************************************************************)
NextCall ==
    \/ return_to_caller
    \/ open
    \/ close
    \/ write_register(Addresses, Values, MaxWideCalls)
    \/ read_register(Addresses, ReplyData, Faults, MaxWideCalls)

SpecCall == Init /\ [][NextCall]_vars

(***************************************************************************)
(* Codec specification: _calculate_crc applied to byte sequences.          *)
(***************************************************************************)
\* bytes the sequences are built from
CrcBytes == {0, 1, 2, 7, 42, 127, 128, 129, 131, 240, 255}

calculate_crc_call(data) ==
    /\ crc_in' = data
    /\ crc_out' = calculate_crc(data)
    /\ UNCHANGED <<transport_vars, beyond_vars, history_call, spi_call, eeprom>>

NextCodec ==
    \/ calculate_crc_call(<<>>)
    \/ \E b \in CrcBytes :
          /\ Len(crc_in) < MaxCrcLen
          /\ calculate_crc_call(Append(crc_in, b))

SpecCodec == Init /\ [][NextCodec]_vars

(***************************************************************************)
(* The CRC-8 step as the documentation states it, on bit vectors: bit i of *)
(* a byte is b[i], bit 7 the most significant.                             *)
(***************************************************************************)
bits_of(x) == [i \in 0..7 |-> (x \div pow2(i)) % 2]

RECURSIVE number_of(_, _)
number_of(b, i) == IF i > 7 THEN 0 ELSE b[i] * pow2(i) + number_of(b, i + 1)

stated_crc_step(crc, byte) ==
    LET c == bits_of(crc)
        d == bits_of(byte)
        t == [i \in 0..7 |-> IF c[i] = d[i] THEN 0 ELSE 1]
        shifted == [i \in 0..7 |-> IF i = 0 THEN 0 ELSE t[i - 1]]
        poly == bits_of(7)
        folded == [i \in 0..7 |-> IF shifted[i] = poly[i] THEN 0 ELSE 1]
    IN  number_of(IF t[7] = 1 THEN folded ELSE shifted, 0)

RECURSIVE stated_crc(_)
stated_crc(b) ==
    IF b = <<>> THEN 0
    ELSE stated_crc_step(stated_crc(SubSeq(b, 1, Len(b) - 1)), b[Len(b)])

\* C4: for every byte sequence b, _calculate_crc(b) is what the stated step,
\* applied to each byte in order from 0x00, yields; it is a byte, and 0x00 for
\* the empty sequence.
C4_crc_as_stated ==
    crc_out # -1 =>
        /\ crc_out = stated_crc(crc_in)
        /\ crc_out \in 0..255
        /\ (crc_in = <<>> => crc_out = 0)

C4_witness == Len(crc_in) >= 3 /\ crc_in[1] >= 128 /\ crc_out > 0

(***************************************************************************)
(* v mod 2^64, stated on digits: for v >= 0 its eight low digits; for      *)
(* v < 0 the eight digits that added to the low digits of -v give 0 in     *)
(* every place (the carry out of the last place is dropped).               *)
(***************************************************************************)
RECURSIVE sums_to_zero(_, _, _, _)
sums_to_zero(x, y, k, carry) ==
    IF k > 7 THEN TRUE
    ELSE LET sum == x[k] + y[k] + carry
         IN  sum % 256 = 0 /\ sums_to_zero(x, y, k + 1, sum \div 256)

is_mod_2_64(v, x) ==
    LET low == [k \in 0..7 |-> IF k < Len(v.mag) THEN v.mag[k + 1] ELSE 0]
    IN  IF v.neg THEN sums_to_zero(x, low, 0, 0)
        ELSE \A k \in 0..7 : x[k] = low[k]

write_accepted ==
    pc = "done" /\ op = "write" /\ address \in 0..5 /\ serial = "open"

\* C1: write_register(a, v) with a in 0x00..0x05 on an open stream hands the
\* stream exactly one packet of 11 bytes: 0x01, a, the eight bytes of
\* v mod 2^64 most significant first, and the CRC-8 of those ten bytes.
C1_write_packet ==
    write_accepted =>
        /\ Len(io) = 1
        /\ io[1].call = "write"
        /\ LET p == io[1].arg
           IN  /\ Len(p) = 11
               /\ p[1] = 1
               /\ p[2] = address
               /\ is_mod_2_64(value, [k \in 0..7 |-> p[10 - k]])
               /\ \A k \in 3..10 : p[k] \in 0..255
               /\ p[11] = stated_crc(SubSeq(p, 1, 10))

C1_witness ==
    /\ write_accepted
    /\ address = 5
    /\ value.neg
    /\ result.status = "True"
    /\ Len(io) = 1

(***************************************************************************)
(* Read calls.                                                             *)
(***************************************************************************)
\* the counters moved by exactly the given amounts since the call was entered
stats_moved(sent, received, crc, timeout) ==
    /\ stats.commands_sent = stats0.commands_sent + sent
    /\ stats.responses_received = stats0.responses_received + received
    /\ stats.crc_errors = stats0.crc_errors + crc
    /\ stats.timeouts = stats0.timeouts + timeout

\* the READ request for the address of the call
stated_read_request ==
    LET body == <<2, address, 0, 0, 0, 0, 0, 0, 0, 0>>
    IN  Append(body, stated_crc(body))

io_reset == stream_call("reset_input_buffer", <<>>)
io_request == stream_call("write", stated_read_request)
io_read == stream_call("read", <<10>>)

\* a read call that passed both checks and has ended
read_done == pc = "done" /\ op = "read" /\ Len(io) = 3

\* C2: read_register(a) with a in 0x10..0x15 on an open stream clears the
\* inbound buffer, writes the READ packet, increments commands_sent and reads
\* 10 bytes once, in this order and each once; whatever the outcome there is
\* no second request and no second read.
C2_read_steps ==
    op = "read" =>
        /\ pc = "read_reset" => io = <<>> /\ stats_moved(0, 0, 0, 0)
        /\ pc = "read_send" => io = <<io_reset>> /\ stats_moved(0, 0, 0, 0)
        /\ pc = "read_count" =>
              io = <<io_reset, io_request>> /\ stats_moved(0, 0, 0, 0)
        /\ pc = "read_recv" =>
              io = <<io_reset, io_request>> /\ stats_moved(1, 0, 0, 0)
        /\ pc = "read_check" =>
              io = <<io_reset, io_request, io_read>> /\ stats_moved(1, 0, 0, 0)
        /\ (pc = "done" /\ address \in 16..21 /\ serial = "open") =>
              /\ io = <<io_reset, io_request, io_read>>
              /\ stats.commands_sent = stats0.commands_sent + 1
              /\ result.status \in {"None", "value"}

C2_witness ==
    /\ read_done
    /\ fault[1] = "short"
    /\ result.status = "None"
    /\ stats0.commands_sent > 0

well_formed(r) ==
    /\ Len(r) = 10
    /\ r[1] = 2
    /\ r[10] = stated_crc(SubSeq(r, 1, 9))

\* C3: when the 10 bytes read are 0x02, d1..d8 and the CRC-8 of these nine,
\* read_register returns the value whose big-endian bytes are d1..d8 (0
\* included), responses_received goes up by 1, crc_errors and timeouts stay.
C3_read_value ==
    (read_done /\ well_formed(response)) =>
        /\ result.status = "value"
        /\ ~result.value.neg
        /\ Len(result.value.mag) <= 8
        /\ \A k \in 0..7 :
              response[9 - k] =
                 IF k < Len(result.value.mag) THEN result.value.mag[k + 1] ELSE 0
        /\ (result.value.mag # <<>> => result.value.mag[Len(result.value.mag)] # 0)
        /\ stats_moved(1, 1, 0, 0)

C3_witness ==
    /\ read_done
    /\ result.status = "value"
    /\ result.value.mag = <<240, 222, 188, 154, 120, 86, 52, 18>>
    /\ stats0.responses_received > 0

\* C5 as claimed: a single flipped bit anywhere in a well-formed response,
\* header included, makes read_register return no value and count one CRC
\* error.
C5_every_flip_is_crc_error ==
    (read_done /\ fault[1] = "flip") =>
        /\ result.status = "None"
        /\ stats.crc_errors = stats0.crc_errors + 1

\* C5: a single flipped bit in a well-formed response makes read_register
\* return no value; flipped in a data byte or the trailer it counts one CRC
\* error and nothing else, flipped in the header byte it counts nothing (the
\* header check rejects the response before the CRC is compared).
C5_flip_detected ==
    (read_done /\ fault[1] = "flip") =>
        /\ result.status = "None"
        /\ IF fault[2] = 1 THEN stats_moved(1, 0, 0, 0)
           ELSE stats_moved(1, 0, 1, 0)

C5_witness ==
    /\ read_done
    /\ fault = <<"flip", 2, 7>>
    /\ response[2] = 128
    /\ stats.crc_errors = 1

(***************************************************************************)
(* Rejected calls.                                                         *)
(***************************************************************************)
call_done == pc = "done" /\ op \in {"write", "read"}

\* the call left the stream, the counters and the history as it found them
nothing_done ==
    /\ io = <<>>
    /\ stats = stats0
    /\ event_history = history0

in_range == IF op = "write" THEN address \in 0..5 ELSE address \in 16..21

\* C6: write_register fails with the invalid-address error exactly for the
\* addresses outside 0x00..0x05 and read_register exactly for those outside
\* 0x10..0x15; a rejected call writes nothing, counts nothing and appends no
\* event.
C6_invalid_address ==
    call_done =>
        /\ result.status = "ValueError" <=> ~in_range
        /\ result.status = "ValueError" => nothing_done

C6_witness ==
    /\ call_done
    /\ op = "write"
    /\ address = 16
    /\ serial = "open"
    /\ enable_events
    /\ result.status = "ValueError"

\* C7: on a stream never opened or closed again, a call with a valid address
\* fails with NotConnected and one with an invalid address with
\* InvalidAddress; either way it writes nothing, counts nothing and appends
\* no event.
C7_not_connected ==
    (call_done /\ serial # "open") =>
        /\ result.status = IF in_range THEN "ConnectionError" ELSE "ValueError"
        /\ nothing_done

C7_witness ==
    /\ call_done
    /\ op = "write"
    /\ serial = "closed"
    /\ in_range
    /\ result.status = "ConnectionError"
    /\ stats.commands_sent > 0

(***************************************************************************)
(* Failed reads.                                                           *)
(***************************************************************************)
\* C8: a read_register call whose read returns fewer than 10 bytes returns
\* no value and moves timeouts and commands_sent by 1 each, crc_errors and
\* responses_received not at all.
C8_timeout ==
    (read_done /\ Len(response) < 10) =>
        /\ result.status = "None"
        /\ stats_moved(1, 0, 0, 1)

C8_witness ==
    /\ read_done
    /\ Len(response) = 9
    /\ stats.timeouts = 2

\* C9: a read_register call that receives 10 bytes with header 0x02 and a
\* trailer that is not the CRC-8 of the first nine returns no value and moves
\* crc_errors by 1, commands_sent by the 1 of the request, and neither
\* responses_received nor timeouts.
C9_crc_error ==
    (/\ read_done
     /\ Len(response) = 10
     /\ response[1] = 2
     /\ response[10] # stated_crc(SubSeq(response, 1, 9))) =>
        /\ result.status = "None"
        /\ stats_moved(1, 0, 1, 0)

C9_witness ==
    /\ read_done
    /\ fault[1] = "trailer"
    /\ response[1] = 2
    /\ stats.crc_errors = 2

\* C10: a read_register call that receives 10 bytes whose first is not 0x02
\* returns no value and moves only commands_sent, by 1, whether the trailer
\* matches the CRC-8 of the first nine bytes or not.
C10_bad_header ==
    (read_done /\ Len(response) = 10 /\ response[1] # 2) =>
        /\ result.status = "None"
        /\ stats_moved(1, 0, 0, 0)

C10_witness ==
    /\ read_done
    /\ fault[1] = "header_trailer"
    /\ response[1] # 2
    /\ response[10] # stated_crc(SubSeq(response, 1, 9))
    /\ stats0.commands_sent > 0

(***************************************************************************)
(* Accepted writes.                                                        *)
(***************************************************************************)
\* C11: a write_register call that passes validation on an open stream
\* returns success with commands_sent moved by 1 and no other counter, and
\* the only stream operation it made is the write: it neither read from nor
\* cleared the inbound stream.
C11_write_no_reply ==
    write_accepted =>
        /\ result.status = "True"
        /\ stats_moved(1, 0, 0, 0)
        /\ \A i \in 1..Len(io) : io[i].call = "write"
        /\ response = <<>>

C11_witness ==
    /\ write_accepted
    /\ result.status = "True"
    /\ stats.commands_sent = 2
    /\ stats.timeouts = 1


(***************************************************************************)
(* Two threads on one interface.  The register calls are those of          *)
(* write_register and read_register above, made by either thread on an     *)
(* open stream with a valid address (rejected calls touch nothing shared), *)
(* and with the statement  self._stats[key] += 1  taken as the load and the *)
(* store it consists of: no lock is held around them.  The poller's calls  *)
(* are the register reads of _check_io_changes (read_system_status,        *)
(* read_currents, read_voltages).  _emit_event runs under _event_lock and  *)
(* is one step.                                                            *)
(***************************************************************************)
\* the keys of self._stats in the order a for loop visits them (lines 131-136)
StatKeys == <<"commands_sent", "responses_received", "crc_errors", "timeouts">>

\* the counter an outcome increments (lines 328, 342, 348)
outcome_key(outcome) ==
    CASE outcome = "timeout" -> "timeouts"
      [] outcome = "crc" -> "crc_errors"
      [] outcome = "ok" -> "responses_received"

\* one response per outcome
ThreadResponses ==
    {corrupt(device_reply(<<0, 0, 0, 0, 0, 0, 0, 42>>), f) :
        f \in {<<"none", 0, 0>>, <<"short", 4, 0>>, <<"header", 1, 0>>,
               <<"trailer", 1, 0>>}}

\* the status register the poller's n-th read asks for (lines 578, 589, 607)
poller_address(n) == 16 + (n % 3)

\* the object before its first register call and its first event: the
\* stream, the running flag, the sampling cycle and the threads as given
interface_state(stream, running, first_cycle, threads) ==
    /\ serial = stream
    /\ stats = [key \in {StatKeys[i] : i \in 1..4} |-> 0]
    /\ enable_events \in BOOLEAN
    /\ event_monitor_running = running
    /\ event_history = <<>>
    /\ pc = "idle"
    /\ op = "none"
    /\ address = 0
    /\ value = zero
    /\ packet = <<>>
    /\ response = <<>>
    /\ result = pending
    /\ io = <<>>
    /\ fault = no_fault
    /\ stats0 = stats
    /\ history0 = <<>>
    /\ ncalls = 0
    /\ crc_in = <<>>
    /\ crc_out = -1
    /\ frame = [t \in Threads |-> idle_frame(0)]
    /\ handed = 0
    /\ ended = [o \in Outcomes |-> 0]
    /\ snapshot = [stats |-> stats, zeroed |-> 0, before |-> stats]
    /\ resetting = [active |-> FALSE, zeroed |-> 0, before |-> stats,
                    window |-> <<>>]
    /\ event_lock = "free"
    /\ emitted = 0
    /\ dispatch = [event |-> <<>>, registered |-> <<>>, invoked |-> <<>>,
                   errors |-> 0, outcome |-> "none"]
    /\ registry_call = [name |-> "none", kind |-> 0, handler |-> "none",
                        before |-> <<>>, outcome |-> "none"]
    /\ registrations = 0
    /\ prev_state = no_previous_state
    /\ cycle = first_cycle
    /\ monitor_threads = threads
    /\ lifecycle_call = no_lifecycle_call
    /\ history_call = no_history_call
    /\ spi_call = no_spi_call
    /\ eeprom = no_eeprom

\* start_event_monitoring() has returned, after open() (stream "open") or
\* without it (stream "None"); no register call, no event yet
started_on(stream) ==
    interface_state(stream, TRUE, new_cycle(1, no_previous_state, 0, <<>>),
                    <<>>)

\* open() and start_event_monitoring() have returned
started == started_on("open")

InitThreads ==
    started /\ event_handlers = <<>> /\ custom_conditions = <<>>

caller_only_vars == <<pc, op, address, value, packet, response, result, io,
                      fault, stats0, history0, ncalls>>

may_call(t) == frame[t].pc = "idle" /\ frame[t].calls < MaxThreadCalls

at(t, position) == frame[t].pc = position

goto(t, position) == frame' = [frame EXCEPT ![t].pc = position]

return(t) == frame' = [frame EXCEPT ![t] = idle_frame(frame[t].calls + 1)]

\* lines 303-317
th_read_register_begin(t, a) ==
    /\ may_call(t)
    /\ valid_status_address(a)
    /\ stream_open
    /\ frame' = [frame EXCEPT ![t].pc = "reset_input", ![t].op = "read",
                              ![t].address = a]
    /\ UNCHANGED <<serial, stats, enable_events, event_monitor_running,
                   event_history, caller_only_vars, codec_vars, event_vars, monitor_vars, handed, ended,
                   snapshot, resetting>>

\* lines 253-270
th_write_register_begin(t, a, v) ==
    /\ may_call(t)
    /\ valid_control_address(a)
    /\ stream_open
    /\ frame' = [frame EXCEPT ![t].pc = "send", ![t].op = "write",
                              ![t].address = a, ![t].value = v]
    /\ UNCHANGED <<serial, stats, enable_events, event_monitor_running,
                   event_history, caller_only_vars, codec_vars, event_vars, monitor_vars, handed, ended,
                   snapshot, resetting>>

\* line 320
th_reset_input_buffer(t) ==
    /\ at(t, "reset_input")
    /\ goto(t, "send")
    /\ UNCHANGED <<serial, stats, enable_events, event_monitor_running,
                   event_history, caller_only_vars, codec_vars, event_vars, monitor_vars, handed, ended,
                   snapshot, resetting>>

\* lines 273 and 321: self.serial.write(packet)
th_send(t) ==
    /\ at(t, "send")
    /\ handed' = handed + 1
    /\ goto(t, "load_sent")
    /\ UNCHANGED <<serial, stats, enable_events, event_monitor_running,
                   event_history, caller_only_vars, codec_vars, event_vars, monitor_vars, ended, snapshot,
                   resetting>>

\* the counter the thread is about to increment
counted_key(t) ==
    IF frame[t].pc \in {"load_sent", "store_sent"} THEN "commands_sent"
    ELSE outcome_key(check_response(frame[t].response))

\* self._stats[key] += 1, first half: the subscript is loaded
th_load(t) ==
    /\ frame[t].pc \in {"load_sent", "load_outcome"}
    /\ frame' = [frame EXCEPT
                   ![t].loaded = stats[counted_key(t)],
                   ![t].pc = IF frame[t].pc = "load_sent" THEN "store_sent"
                             ELSE "store_outcome"]
    /\ UNCHANGED <<serial, stats, enable_events, event_monitor_running,
                   event_history, caller_only_vars, codec_vars, event_vars, monitor_vars, handed, ended,
                   snapshot, resetting>>

\* self._stats[key] += 1, second half: the sum is stored
th_store(t) ==
    /\ frame[t].pc \in {"store_sent", "store_outcome"}
    /\ stats' = [stats EXCEPT ![counted_key(t)] = frame[t].loaded + 1]
    /\ resetting' =
          IF resetting.active
          THEN [resetting EXCEPT !.window = Append(@, counted_key(t))]
          ELSE resetting
    /\ IF frame[t].pc = "store_sent"
       THEN goto(t, IF frame[t].op = "read" THEN "recv" ELSE "emit")
       ELSE IF check_response(frame[t].response) = "ok"
       THEN goto(t, "emit")
       ELSE return(t)
    /\ UNCHANGED <<serial, enable_events, event_monitor_running, event_history,
                   caller_only_vars, codec_vars, event_vars, monitor_vars, handed, ended, snapshot>>

\* line 325: response = self.serial.read(10)
th_recv(t, r) ==
    /\ at(t, "recv")
    /\ frame' = [frame EXCEPT ![t].response = r, ![t].pc = "check"]
    /\ UNCHANGED <<serial, stats, enable_events, event_monitor_running,
                   event_history, caller_only_vars, codec_vars, event_vars, monitor_vars, handed, ended,
                   snapshot, resetting>>

\* lines 327-344: the checks; a bad header returns at once
th_check(t) ==
    /\ at(t, "check")
    /\ LET outcome == check_response(frame[t].response)
       IN  /\ ended' = [ended EXCEPT ![outcome] = @ + 1]
           /\ IF outcome = "header" THEN return(t) ELSE goto(t, "load_outcome")
    /\ UNCHANGED <<serial, stats, enable_events, event_monitor_running,
                   event_history, caller_only_vars, codec_vars, event_vars, monitor_vars, handed,
                   snapshot, resetting>>

\* lines 276-287 and 350-361: the event, then the return
th_emit_and_return(t) ==
    /\ at(t, "emit")
    /\ event_history' =
          IF ~enable_events THEN event_history
          ELSE IF frame[t].op = "write"
          THEN emit_event(event_history,
                          IOEvent(REGISTER_WRITE, frame[t].address,
                                  frame[t].value))
          ELSE emit_event(event_history,
                          IOEvent(REGISTER_READ, frame[t].address,
                                  struct_unpack_Q(SubSeq(frame[t].response, 2, 9))))
    /\ return(t)
    /\ UNCHANGED <<serial, stats, enable_events, event_monitor_running,
                   caller_only_vars, codec_vars, event_vars, monitor_vars, handed, ended, snapshot,
                   resetting>>

\* reset_statistics (lines 490-493): the loop is entered
th_reset_statistics_begin(t) ==
    /\ may_call(t)
    /\ ~resetting.active
    /\ goto(t, "zero")
    /\ resetting' = [active |-> TRUE, zeroed |-> 0, before |-> stats,
                     window |-> <<>>]
    /\ UNCHANGED <<serial, stats, enable_events, event_monitor_running,
                   event_history, caller_only_vars, codec_vars, event_vars, monitor_vars, handed, ended,
                   snapshot>>

\* line 493: self._stats[key] = 0 for the next key
th_reset_statistics_step(t) ==
    /\ at(t, "zero")
    /\ stats' = [stats EXCEPT ![StatKeys[resetting.zeroed + 1]] = 0]
    /\ resetting' = [resetting EXCEPT !.zeroed = @ + 1]
    /\ IF resetting.zeroed + 1 = Len(StatKeys)
       THEN goto(t, "reset_done")
       ELSE UNCHANGED frame
    /\ UNCHANGED <<serial, enable_events, event_monitor_running, event_history,
                   caller_only_vars, codec_vars, event_vars, monitor_vars, handed, ended, snapshot>>

\* reset_statistics returns
th_reset_statistics_return(t) ==
    /\ at(t, "reset_done")
    /\ resetting' = [resetting EXCEPT !.active = FALSE]
    /\ return(t)
    /\ UNCHANGED <<serial, stats, enable_events, event_monitor_running,
                   event_history, caller_only_vars, codec_vars, event_vars, monitor_vars, handed, ended,
                   snapshot>>

\* get_statistics (lines 486-488): dict.copy() is one step of the interpreter
th_get_statistics(t) ==
    /\ may_call(t)
    /\ snapshot' = [stats |-> stats,
                    zeroed |-> IF resetting.active THEN resetting.zeroed ELSE 0,
                    before |-> resetting.before]
    /\ return(t)
    /\ UNCHANGED <<serial, stats, enable_events, event_monitor_running,
                   event_history, caller_only_vars, codec_vars, event_vars, monitor_vars, handed, ended,
                   resetting>>

\* what the caller's thread may do
\* the value the caller writes
caller_value == py_int(FALSE, <<42>>)

caller_thread ==
    \/ th_read_register_begin("caller", 16)
    \/ th_write_register_begin("caller", 0, caller_value)
    \/ th_reset_statistics_begin("caller")
    \/ th_reset_statistics_step("caller")
    \/ th_reset_statistics_return("caller")
    \/ th_get_statistics("caller")

\* what the poller's thread may do: the reads of its sampling cycle, and
\* get_statistics from an event handler
poller_thread ==
    \/ th_read_register_begin("poller", poller_address(frame["poller"].calls))
    \/ th_get_statistics("poller")

NextThreads ==
    \/ caller_thread
    \/ poller_thread
    \/ \E t \in Threads :
          \/ th_reset_input_buffer(t)
          \/ th_send(t)
          \/ th_load(t)
          \/ th_store(t)
          \/ \E r \in ThreadResponses : th_recv(t, r)
          \/ th_check(t)
          \/ th_emit_and_return(t)

SpecThreads == InitThreads /\ [][NextThreads]_vars


\* every call of every thread has returned
quiescent == \A t \in Threads : frame[t].pc = "idle"

\* reset_statistics was never entered
never_reset == ~resetting.active /\ resetting.zeroed = 0

\* C12: whatever the interleaving of the caller's calls and the poller's
\* reads, once every call has returned (and no reset was made) commands_sent
\* is the number of packets handed to the stream and timeouts, crc_errors and
\* responses_received are the numbers of reads that ended that way.
C12_no_increment_lost ==
    (quiescent /\ never_reset) =>
        /\ stats.commands_sent = handed
        /\ stats.timeouts = ended["timeout"]
        /\ stats.crc_errors = ended["crc"]
        /\ stats.responses_received = ended["ok"]


\* a snapshot taken while a reset had zeroed some keys and not the others,
\* and showing it: a zeroed key that counted before, an unzeroed one that
\* still counts
torn(snap) ==
    /\ snap.zeroed \in 1..(Len(StatKeys) - 1)
    /\ \E i \in 1..snap.zeroed : snap.before[StatKeys[i]] > 0
    /\ \E j \in (snap.zeroed + 1)..Len(StatKeys) : snap.stats[StatKeys[j]] > 0

\* the counters an atomic reset leaves when the increments stored while it
\* ran are w and the first k of them came before it
explained_by(w, k) ==
    [key \in DOMAIN stats |->
        Cardinality({i \in (k + 1)..Len(w) : w[i] = key})]

\* C13: reset_statistics is atomic: no snapshot of another thread shows some
\* counters zeroed and others not, and when the reset has finished the
\* counters are what zeroing all four at one instant among the increments
\* made meanwhile would leave.
C13_reset_atomic ==
    /\ ~torn(snapshot)
    /\ frame["caller"].pc = "reset_done" =>
          \E k \in 0..Len(resetting.window) :
              stats = explained_by(resetting.window, k)


\* the thread's read_register has written its request and has not finished
\* its serial.read(10)
outstanding(t) ==
    /\ frame[t].op = "read"
    /\ frame[t].pc \in {"load_sent", "store_sent", "recv"}

\* C14: at most one request is outstanding on the transport while the caller
\* issues register calls and the monitor polls: never are two read_register
\* calls both between writing the request and finishing the read.
C14_one_outstanding ==
    ~(outstanding("caller") /\ outstanding("poller"))


(***************************************************************************)
(* The event system: the handler registry, _emit_event and the history.    *)
(* Everything here runs under self._event_lock, a threading.Lock: a step   *)
(* that needs it waits until it is free.  _emit_event keeps it from the    *)
(* append to the end of the handler loop.                                  *)
(***************************************************************************)
\* the callables registered as handlers: one returns, one raises an Exception
Handlers == {"on_event", "on_event_raising"}

\* what handler(event) raises: nothing, or an exception class
handler_exception(h) ==
    IF h = "on_event_raising" THEN <<"RuntimeError">> ELSE <<>>

\* a callable that calls clear_event_history() of the interface it is
\* registered with
ReentrantHandlers == {"on_event_clearing_history"}

\* handler(event) calls a method that begins with: with self._event_lock
handler_reenters(h) == h \in ReentrantHandlers

except_nothing(exception) == FALSE

\* except Exception  (line 568)
except_Exception(exception) ==
    exception \in {"RuntimeError", "ValueError", "ConnectionError"}

next_handler_from_end(list, invoked) == list[Len(list) - Len(invoked)]

\* for handler in handlers: the handler of the next turn of the loop
next_handler(list, invoked) == list[Len(invoked) + 1]

\* self._event_handlers.get(kind, [])  (line 564)
handlers_get(registry, kind) ==
    IF kind \in DOMAIN registry THEN registry[kind] ELSE <<>>

\* self._event_handlers[kind] on the defaultdict(list): an absent key is
\* created with an empty list (lines 511, 524)
handlers_getitem(registry, kind) ==
    [k \in DOMAIN registry \cup {kind} |-> handlers_get(registry, k)]

\* handler in list
contains(list, h) == \E i \in 1..Len(list) : list[i] = h

first_index(list, h) ==
    CHOOSE i \in 1..Len(list) : list[i] = h /\ \A j \in 1..(i - 1) : list[j] # h

last_index(list, h) ==
    CHOOSE i \in 1..Len(list) :
        list[i] = h /\ \A j \in (i + 1)..Len(list) : list[j] # h

without(list, i) == SubSeq(list, 1, i - 1) \o SubSeq(list, i + 1, Len(list))

list_remove_last(list, h) == without(list, last_index(list, h))

\* list.remove(h)
list_remove(list, h) == without(list, first_index(list, h))

history_evict_newest(history) ==
    IF Len(history) > max_history_size
    THEN SubSeq(history, 1, Len(history) - 1)
    ELSE history

\* lines 560-561: pop(0) once the history is over its size
history_evict(history) ==
    IF Len(history) > max_history_size THEN Tail(history) ELSE history

\* get_event_history(event_type, limit) on a history; an argument left None
\* is <<>>, one given is <<x>>  (lines 677-686)
get_event_history(history, event_type, limit) ==
    LET keep(e) == e.event_type = event_type[1]
        events == IF event_type = <<>> THEN history ELSE SelectSeq(history, keep)
        from == IF limit = <<>> \/ limit[1] = 0 THEN 1
                ELSE IF limit[1] > 0
                THEN IF limit[1] >= Len(events) THEN 1
                     ELSE Len(events) - limit[1] + 1
                ELSE 1 - limit[1]
    IN  SubSeq(events, from, Len(events))

\* no _emit_event call in progress
no_dispatch ==
    [event |-> <<>>, registered |-> <<>>, invoked |-> <<>>, errors |-> 0,
     outcome |-> "none"]

\* no registry call made yet
no_registry_call ==
    [name |-> "none", kind |-> 0, handler |-> "none", before |-> <<>>,
     outcome |-> "none"]

outside_events == <<serial, stats, enable_events, event_monitor_running,
                    caller_only_vars, codec_vars, handed, ended, snapshot,
                    resetting, monitor_vars>>

\* register_event_handler (lines 510-513)
register_event_handler(t, kind, h, limit) ==
    /\ at(t, "idle")
    /\ event_lock = "free"
    /\ registrations < limit
    /\ registrations' = registrations + 1
    /\ event_handlers' =
          [handlers_getitem(event_handlers, kind) EXCEPT ![kind] = Append(@, h)]
    /\ registry_call' = [name |-> "register", kind |-> kind, handler |-> h,
                         before |-> event_handlers, outcome |-> "returned"]
    /\ UNCHANGED <<outside_events, event_history, frame, event_lock, emitted,
                   dispatch>>

\* unregister_event_handler (lines 523-526)
unregister_event_handler(t, kind, h) ==
    /\ at(t, "idle")
    /\ event_lock = "free"
    /\ LET registry == handlers_getitem(event_handlers, kind)
       IN  event_handlers' =
              IF contains(registry[kind], h)
              THEN [registry EXCEPT ![kind] = list_remove(@, h)]
              ELSE registry
    /\ registry_call' = [name |-> "unregister", kind |-> kind, handler |-> h,
                         before |-> event_handlers, outcome |-> "returned"]
    /\ UNCHANGED <<outside_events, event_history, frame, event_lock, emitted,
                   dispatch, registrations>>

emit_event_enter_unlocked(t, event) ==
    /\ emitted' = emitted + 1
    /\ event_history' = Append(event_history, event)
    /\ dispatch' = [no_dispatch EXCEPT
                      !.event = <<event>>,
                      !.registered = handlers_get(event_handlers, event.event_type)]
    /\ goto(t, "evict")
    /\ UNCHANGED <<outside_events, event_handlers, registry_call, registrations,
                   event_lock>>

\* _emit_event, lines 557-559: the lock is taken and the event appended
emit_event_enter(t, event) ==
    /\ event_lock = "free"
    /\ event_lock' = t
    /\ emitted' = emitted + 1
    /\ event_history' = Append(event_history, event)
    /\ dispatch' = [no_dispatch EXCEPT
                      !.event = <<event>>,
                      !.registered = handlers_get(event_handlers, event.event_type)]
    /\ goto(t, "evict")
    /\ UNCHANGED <<outside_events, event_handlers, registry_call, registrations>>

\* an _emit_event call made for itself, outside a register operation
emit_event_append(t, event, limit) ==
    /\ at(t, "idle")
    /\ emitted < limit
    /\ emit_event_enter(t, event)

\* _emit_event has returned or raised: the thread is back in the register
\* operation that emitted, which returns; or it is idle again
emit_event_leave(t) ==
    frame' = [frame EXCEPT
                ![t] = IF @.op = "none" THEN [@ EXCEPT !.pc = "idle"]
                       ELSE idle_frame(@.calls + 1)]

emit_event_evict_releasing(t) ==
    /\ at(t, "evict")
    /\ event_history' = history_evict(event_history)
    /\ event_lock' = "free"
    /\ goto(t, "dispatch")
    /\ UNCHANGED <<outside_events, event_handlers, emitted, dispatch,
                   registry_call, registrations>>

\* lines 560-561
emit_event_evict(t) ==
    /\ at(t, "evict")
    /\ event_history' = history_evict(event_history)
    /\ goto(t, "dispatch")
    /\ UNCHANGED <<outside_events, event_handlers, event_lock, emitted,
                   dispatch, registry_call, registrations>>

\* the handlers the loop of lines 564-569 goes over
dispatch_list == handlers_get(event_handlers, dispatch.event[1].event_type)

\* lines 565-569: one turn of the loop; an Exception is caught and printed
emit_event_invoke(t) ==
    /\ at(t, "dispatch")
    /\ Len(dispatch.invoked) < Len(dispatch_list)
    /\ LET h == next_handler(dispatch_list, dispatch.invoked)
           exception == handler_exception(h)
       IN  IF exception = <<>> \/ except_Exception(exception[1])
           THEN /\ dispatch' = [dispatch EXCEPT
                                  !.invoked = Append(@, h),
                                  !.errors = IF exception = <<>> THEN @ ELSE @ + 1]
                /\ frame' = IF handler_reenters(h)
                            THEN [frame EXCEPT ![t].pc = "handler"]
                            ELSE frame
                /\ UNCHANGED event_lock
           ELSE /\ dispatch' = [dispatch EXCEPT !.invoked = Append(@, h),
                                                !.outcome = "raised"]
                /\ event_lock' = "free"
                /\ emit_event_leave(t)
    /\ UNCHANGED <<outside_events, event_history, event_handlers, emitted,
                   registry_call, registrations>>

\* the loop is over: the lock is released and _emit_event returns
emit_event_return(t) ==
    /\ at(t, "dispatch")
    /\ Len(dispatch.invoked) = Len(dispatch_list)
    /\ event_lock' = "free"
    /\ dispatch' = [dispatch EXCEPT !.outcome = "returned"]
    /\ emit_event_leave(t)
    /\ UNCHANGED <<outside_events, event_history, event_handlers, emitted,
                   registry_call, registrations>>

emit_event_steps(t) ==
    \/ emit_event_evict(t)
    \/ emit_event_invoke(t)
    \/ emit_event_return(t)


(***************************************************************************)
(* The history under a long run of emits.  Both threads emit; the n-th     *)
(* event emitted is a read of status register 0x10 that returned n, and    *)
(* one handler is registered for that kind.                                *)
(***************************************************************************)
int_value(n) == py_int(FALSE, <<n % 256, n \div 256>>)

nth_event(n) == IOEvent(REGISTER_READ, 16, int_value(n))

InitHistory ==
    /\ started
    /\ event_handlers = [kind \in {REGISTER_READ} |-> <<"on_event">>]
    /\ custom_conditions = <<>>

NextHistory ==
    \E t \in Threads :
        \/ emit_event_append(t, nth_event(emitted + 1), MaxEmits)
        \/ emit_event_steps(t)

SpecHistory == InitHistory /\ [][NextHistory]_vars

min(a, b) == IF a < b THEN a ELSE b

\* C15: whenever a reader can take the lock, what get_event_history() returns
\* is at most 1000 events long and is exactly the last min(N, 1000) of the N
\* events emitted so far, oldest first.
C15_history_bounded ==
    event_lock = "free" =>
        LET events == get_event_history(event_history, <<>>, <<>>)
            kept == min(emitted, 1000)
        IN  /\ Len(events) <= 1000
            /\ events = [i \in 1..kept |-> nth_event(emitted - kept + i)]

C15_witness ==
    /\ event_lock = "free"
    /\ emitted = 1002
    /\ Len(event_history) = 1000
    /\ event_history[1] = nth_event(3)
    /\ dispatch.outcome = "returned"
    /\ dispatch.invoked = <<"on_event">>


(***************************************************************************)
(* The registry and the dispatch: both threads register and unregister     *)
(* handlers and emit events of two kinds.                                  *)
(***************************************************************************)
EventKinds == {REGISTER_WRITE, REGISTER_READ}

InitEvents ==
    started /\ event_handlers = <<>> /\ custom_conditions = <<>>

\* the events emitted: one of each kind
EmittedEvents == {IOEvent(kind, 0, zero) : kind \in EventKinds}

NextEvents ==
    \E t \in Threads :
        \/ \E kind \in EventKinds, h \in Handlers :
              register_event_handler(t, kind, h, MaxRegistrations)
        \/ \E kind \in EventKinds, h \in Handlers :
              unregister_event_handler(t, kind, h)
        \/ \E event \in EmittedEvents :
              emit_event_append(t, event, MaxEventEmits)
        \/ emit_event_steps(t)

SpecEvents == InitEvents /\ [][NextEvents]_vars

\* an _emit_event call has begun (and maybe returned)
dispatching == dispatch.event # <<>>

is_prefix(a, b) ==
    /\ Len(a) <= Len(b)
    /\ \A i \in 1..Len(a) : a[i] = b[i]

\* C16: an emit has its event at the end of the history before any handler
\* runs; the handlers it invokes are those registered for the event's kind
\* when it began, in registration order, one invocation per registration:
\* a prefix of that list while the loop runs, the whole list when the emit
\* has returned.  Registration appends to the kind's list, duplicates kept.
C16_dispatch_in_order ==
    /\ dispatching =>
          /\ is_prefix(dispatch.invoked, dispatch.registered)
          /\ dispatch.outcome = "none" =>
                /\ event_history # <<>>
                /\ event_history[Len(event_history)] = dispatch.event[1]
          /\ dispatch.outcome = "returned" =>
                dispatch.invoked = dispatch.registered
    /\ registry_call.name = "register" =>
          \A kind \in EventKinds :
              handlers_get(event_handlers, kind) =
                 IF kind = registry_call.kind
                 THEN Append(handlers_get(registry_call.before, kind),
                             registry_call.handler)
                 ELSE handlers_get(registry_call.before, kind)

C16_witness ==
    /\ dispatching
    /\ dispatch.outcome = "returned"
    /\ dispatch.event[1].event_type = REGISTER_WRITE
    /\ dispatch.invoked = <<"on_event", "on_event">>
    /\ handlers_get(event_handlers, REGISTER_READ) = <<"on_event_raising">>

\* a handler invoked by the emit has raised
handler_raised ==
    \E i \in 1..Len(dispatch.invoked) :
        handler_exception(dispatch.invoked[i]) # <<>>

\* C17: once a handler has raised during a dispatch, the emit does not end
\* by raising: the loop goes on under the lock, and when the emit has
\* returned every handler registered for the kind was invoked, those after
\* the raising one included, and the event is in the history.
C17_handler_error_isolated ==
    (dispatching /\ handler_raised) =>
        /\ dispatch.outcome # "raised"
        /\ dispatch.outcome = "none" =>
              \E t \in Threads : at(t, "dispatch") /\ event_lock = t
        /\ dispatch.outcome = "returned" =>
              /\ dispatch.invoked = dispatch.registered
              /\ \E i \in 1..Len(event_history) :
                    event_history[i] = dispatch.event[1]

C17_witness ==
    /\ dispatching
    /\ dispatch.outcome = "returned"
    /\ dispatch.invoked = <<"on_event_raising", "on_event", "on_event_raising">>
    /\ dispatch.errors = 2

\* C18: unregister_event_handler(kind, h) returns normally and leaves every
\* other kind's handler list as it was; when h is in kind's list, the list
\* loses its first occurrence of h and nothing else, order kept; when it is
\* not, kind's list is unchanged too.
C18_unregister_first ==
    registry_call.name = "unregister" =>
        LET kind == registry_call.kind
            h == registry_call.handler
            old == handlers_get(registry_call.before, kind)
            new == handlers_get(event_handlers, kind)
        IN  /\ registry_call.outcome = "returned"
            /\ \A other \in EventKinds \ {kind} :
                  handlers_get(event_handlers, other) =
                     handlers_get(registry_call.before, other)
            /\ IF \E i \in 1..Len(old) : old[i] = h
               THEN \E i \in 1..Len(old) :
                       /\ old[i] = h
                       /\ \A j \in 1..(i - 1) : old[j] # h
                       /\ new = [j \in 1..(Len(old) - 1) |->
                                    IF j < i THEN old[j] ELSE old[j + 1]]
               ELSE new = old

C18_witness ==
    /\ registry_call.name = "unregister"
    /\ registry_call.kind = REGISTER_READ
    /\ registry_call.handler = "on_event"
    /\ handlers_get(registry_call.before, REGISTER_READ) =
          <<"on_event", "on_event_raising", "on_event">>
    /\ handlers_get(event_handlers, REGISTER_READ) =
          <<"on_event_raising", "on_event">>


(***************************************************************************)
(* The sampling cycle of the monitor thread: _check_io_changes, called by  *)
(* _event_monitor_loop.  The poller is the only thread using the transport *)
(* here, so each register read of the cycle is one step: read_register as  *)
(* above (commands_sent, the outcome's counter, the REGISTER_READ event),  *)
(* followed by what the cycle does with the value.  No handler is          *)
(* registered, so _emit_event only appends to the history.                 *)
(***************************************************************************)
SYSTEM_STATUS_CHANGE == 80
CUSTOM_THRESHOLD == 96
CUSTOM_CONDITION == 97
I2C0_DATA_RECEIVED == 34
I2C1_DATA_RECEIVED == 38
UART_CRC_ERROR == 66
UART_TIMEOUT == 67
STATUS_SYSTEM == 16
STATUS_CURRENT == 17
STATUS_VOLTAGE == 18

\* an IOEvent built with event_type and data only
IOEvent_data(event_type, data) == [event_type |-> event_type, data |-> data]

\* an IOEvent built with event_type, channel, value and data
IOEvent_channel(event_type, channel, val, data) ==
    [event_type |-> event_type, channel |-> channel, value |-> val,
     data |-> data]

\* (value >> 8*i) & 0xFF and (value >> 8*i) & 0xFFFF
byte_at(v, i) == digit(v.mag, i)

word_at(v, i) == digit(v.mag, i) + 256 * digit(v.mag, i + 1)

\* what read_register returns for a response: <<>> is None
read_value(r) ==
    IF check_response(r) = "ok" THEN <<struct_unpack_Q(SubSeq(r, 2, 9))>>
    ELSE <<>>

\* the counters after a read_register that received r
stats_read(st, r) ==
    stats_after([st EXCEPT !.commands_sent = @ + 1], check_response(r))

\* the history after a read_register of address a that received r
history_read(history, a, r) ==
    IF enable_events /\ check_response(r) = "ok"
    THEN emit_event(history, IOEvent(REGISTER_READ, a, read_value(r)[1]))
    ELSE history

\* read_system_status on what read_register returned: <<>> is the empty dict
read_system_status(v) ==
    IF v = <<>> THEN <<>>
    ELSE <<[timestamp |-> py_int(FALSE, [i \in 1..4 |-> byte_at(v[1], i + 3)]),
            bus_status |-> byte_at(v[1], 3),
            error_flags |-> byte_at(v[1], 2),
            temperature |-> byte_at(v[1], 1),
            status_bits |-> byte_at(v[1], 0)]>>

\* read_currents
read_currents(v) ==
    IF v = <<>> THEN <<>>
    ELSE <<[mon0 |-> word_at(v[1], 0), mon1 |-> word_at(v[1], 2),
            mon2 |-> word_at(v[1], 4), mon3 |-> word_at(v[1], 6)]>>

\* read_voltages
read_voltages(v) ==
    IF v = <<>> THEN <<>>
    ELSE <<[volt0 |-> word_at(v[1], 4), volt1 |-> word_at(v[1], 6),
            i2c0_rx |-> word_at(v[1], 2), i2c1_rx |-> word_at(v[1], 0)]>>

status_changed_when_read(status, previous) == status # <<>>

\* line 579: status and status != self._prev_state['system_status']
status_changed(status, previous) == status # <<>> /\ status # previous

\* the predicates registered as conditions, on a currents mapping
condition_result(condition, currents) ==
    CASE condition = "mon0_over_1000" ->
            IF currents.mon0 > 1000 THEN "True" ELSE "False"
      [] condition = "mon3_over_1000" ->
            IF currents.mon3 > 1000 THEN "True" ELSE "False"
      [] condition = "raises" -> "raise"

\* register_custom_condition (lines 528-548); event_type left out is <<>>
register_custom_condition(conditions, name, condition, event_type) ==
    Append(conditions,
           <<name, condition,
             IF event_type = <<>> THEN CUSTOM_CONDITION ELSE event_type[1]>>)

condition_event_default_kind(name, event_type, currents) ==
    IOEvent_data(CUSTOM_CONDITION, [condition |-> name, currents |-> currents])

\* lines 594-598
condition_event(name, event_type, currents) ==
    IOEvent_data(event_type, [condition |-> name, currents |-> currents])

\* the lists of conditions registered before the cycles modelled
ConditionLists ==
    LET threshold(l) ==
            register_custom_condition(l, "high_current", "mon0_over_1000",
                                      <<CUSTOM_THRESHOLD>>)
        default(l) ==
            register_custom_condition(l, "high_current", "mon0_over_1000", <<>>)
        quiet(l) ==
            register_custom_condition(l, "mon3", "mon3_over_1000", <<>>)
        broken(l) ==
            register_custom_condition(l, "broken", "raises", <<>>)
    IN  {<<>>, threshold(<<>>), default(threshold(<<>>)),
         threshold(quiet(default(<<>>))), default(broken(<<>>))}

\* what the device answers to each read of the cycle, and a timeout
word_reply(w3, w2, w1, w0) ==
    device_reply(<<w3 \div 256, w3 % 256, w2 \div 256, w2 % 256,
                   w1 \div 256, w1 % 256, w0 \div 256, w0 % 256>>)

timed_out == <<>>

StatusReplies ==
    {word_reply(0, 1, 0, 30 * 256 + 1), word_reply(0, 1, 0, 31 * 256 + 1),
     timed_out,
     corrupt(word_reply(0, 1, 0, 30 * 256 + 1), <<"header", 1, 0>>)}

CurrentsReplies == {word_reply(0, 0, 0, 2000), timed_out}

VoltagesReplies == {word_reply(3300, 1200, 1, 7), word_reply(3300, 1200, 2, 7),
                    timed_out}

InitMonitor ==
    /\ \E stream \in {"open", "None"} : started_on(stream)
    /\ event_handlers = <<>>
    /\ custom_conditions \in ConditionLists

outside_monitor == <<serial, enable_events, event_monitor_running,
                     caller_only_vars, codec_vars, thread_vars, event_vars,
                     monitor_threads, lifecycle_call>>

\* a read_register call of the cycle has ended: its address, whether it
\* raised, what it returned (<<>> is None), the length of the history it left
cycle_read(a, exception, v, history) ==
    [address |-> a, raised |-> exception, failed |-> v = <<>>, value |-> v,
     events |-> Len(history)]

cycle_continued(a) ==
    /\ cycle' = [cycle EXCEPT
                   !.step = IF a = STATUS_SYSTEM THEN "currents"
                            ELSE IF a = STATUS_CURRENT THEN "voltages"
                            ELSE "sleep",
                   !.reads = Append(@, cycle_read(a, TRUE, <<>>,
                                                  event_history))]
    /\ UNCHANGED <<stats, event_history, prev_state>>

\* lines 306-307, 633: read_register of address a raises ConnectionError, and
\* the cycle is left through the except clause
cycle_aborted(a) ==
    /\ cycle' = [cycle EXCEPT
                   !.step = "sleep",
                   !.reads = Append(@, cycle_read(a, TRUE, <<>>,
                                                  event_history))]
    /\ UNCHANGED <<stats, event_history, prev_state>>

after_condition_uncaught(outcome) ==
    IF outcome = "raise" THEN "sleep" ELSE "conditions"

\* lines 600-601: an exception of the predicate is caught inside the loop,
\* which goes on with the next condition
after_condition(outcome) == "conditions"

\* lines 578-586: the status step
check_io_status(r) ==
    /\ cycle.step = "status"
    /\ IF ~stream_open THEN cycle_aborted(STATUS_SYSTEM)
       ELSE LET status == read_system_status(read_value(r))
                read == history_read(event_history, STATUS_SYSTEM, r)
                changed == status_changed(status, prev_state.system_status)
            IN  /\ stats' = stats_read(stats, r)
                /\ event_history' =
                      IF changed
                      THEN emit_event(read, IOEvent_data(SYSTEM_STATUS_CHANGE,
                                                         status[1]))
                      ELSE read
                /\ prev_state' =
                      IF changed THEN [prev_state EXCEPT !.system_status = status]
                      ELSE prev_state
                /\ cycle' = [cycle EXCEPT
                               !.step = "currents", !.status = status,
                               !.reads = Append(@,
                                   cycle_read(STATUS_SYSTEM, FALSE,
                                              read_value(r), read))]
    /\ UNCHANGED <<outside_monitor, custom_conditions>>

\* lines 589-590: the currents read
check_io_currents(r) ==
    /\ cycle.step = "currents"
    /\ IF ~stream_open THEN cycle_aborted(STATUS_CURRENT)
       ELSE LET currents == read_currents(read_value(r))
                read == history_read(event_history, STATUS_CURRENT, r)
            IN  /\ stats' = stats_read(stats, r)
                /\ event_history' = read
                /\ cycle' = [cycle EXCEPT
                               !.step = IF currents = <<>> THEN "voltages"
                                        ELSE "conditions",
                               !.currents = currents,
                               !.reads = Append(@,
                                   cycle_read(STATUS_CURRENT, FALSE,
                                              read_value(r), read))]
                /\ UNCHANGED prev_state
    /\ UNCHANGED <<outside_monitor, custom_conditions>>

\* lines 592-601: one turn of the loop over self._custom_conditions
check_io_condition ==
    /\ cycle.step = "conditions"
    /\ Len(cycle.evaluated) < Len(custom_conditions)
    /\ LET c == custom_conditions[Len(cycle.evaluated) + 1]
           currents == cycle.currents[1]
       IN  /\ event_history' =
                 IF condition_result(c[2], currents) = "True"
                 THEN emit_event(event_history,
                                 condition_event(c[1], c[3], currents))
                 ELSE event_history
           /\ cycle' = [cycle EXCEPT
                          !.evaluated = Append(@, c),
                          !.step = after_condition(
                                       condition_result(c[2], currents))]
    /\ UNCHANGED <<outside_monitor, custom_conditions, stats, prev_state>>

\* line 603: the loop is over
check_io_conditions_done ==
    /\ cycle.step = "conditions"
    /\ Len(cycle.evaluated) = Len(custom_conditions)
    /\ prev_state' = [prev_state EXCEPT !.currents = cycle.currents]
    /\ cycle' = [cycle EXCEPT !.step = "voltages"]
    /\ UNCHANGED <<outside_monitor, custom_conditions, stats, event_history>>

i2c_events_first_only(voltages, previous) ==
    IF voltages.i2c0_rx # previous.i2c0_rx
    THEN <<IOEvent_channel(I2C0_DATA_RECEIVED, 0, voltages.i2c0_rx,
                           [i2c_data |-> voltages.i2c0_rx])>>
    ELSE IF voltages.i2c1_rx # previous.i2c1_rx
    THEN <<IOEvent_channel(I2C1_DATA_RECEIVED, 1, voltages.i2c1_rx,
                           [i2c_data |-> voltages.i2c1_rx])>>
    ELSE <<>>

\* lines 609-628: the I2C events of a voltages sample that differs from the
\* stored one
i2c_events(voltages, previous) ==
    (IF voltages.i2c0_rx # previous.i2c0_rx
     THEN <<IOEvent_channel(I2C0_DATA_RECEIVED, 0, voltages.i2c0_rx,
                            [i2c_data |-> voltages.i2c0_rx])>>
     ELSE <<>>)
    \o (IF voltages.i2c1_rx # previous.i2c1_rx
        THEN <<IOEvent_channel(I2C1_DATA_RECEIVED, 1, voltages.i2c1_rx,
                               [i2c_data |-> voltages.i2c1_rx])>>
        ELSE <<>>)

RECURSIVE emit_events(_, _)
emit_events(history, events) ==
    IF events = <<>> THEN history
    ELSE emit_events(emit_event(history, events[1]), Tail(events))

\* lines 606-630: the voltages step
check_io_voltages(r) ==
    /\ cycle.step = "voltages"
    /\ IF ~stream_open THEN cycle_aborted(STATUS_VOLTAGE)
       ELSE LET voltages == read_voltages(read_value(r))
                read == history_read(event_history, STATUS_VOLTAGE, r)
                changed == voltages # <<>> /\ voltages # prev_state.voltages
            IN  /\ stats' = stats_read(stats, r)
                /\ event_history' =
                      IF changed /\ prev_state.voltages # <<>>
                      THEN emit_events(read, i2c_events(voltages[1],
                                                        prev_state.voltages[1]))
                      ELSE read
                /\ prev_state' =
                      IF changed THEN [prev_state EXCEPT !.voltages = voltages]
                      ELSE prev_state
                /\ cycle' = [cycle EXCEPT
                               !.step = "sleep",
                               !.reads = Append(@,
                                   cycle_read(STATUS_VOLTAGE, FALSE,
                                              read_value(r), read))]
    /\ UNCHANGED <<outside_monitor, custom_conditions>>

\* lines 641-643: the sleep is over, the flag is still set, the next cycle
\* begins
next_cycle(limit) ==
    /\ cycle.step = "sleep"
    /\ event_monitor_running
    /\ cycle.n < limit
    /\ cycle' = new_cycle(cycle.n + 1, prev_state, Len(event_history),
                          cycle.status)
    /\ UNCHANGED <<outside_monitor, custom_conditions, stats, event_history,
                   prev_state>>

\* the steps of the monitor thread, the device answering from the given
\* sets of replies
monitor_steps(status_replies, currents_replies, voltages_replies, limit) ==
    \/ \E r \in status_replies : check_io_status(r)
    \/ \E r \in currents_replies : check_io_currents(r)
    \/ check_io_condition
    \/ check_io_conditions_done
    \/ \E r \in voltages_replies : check_io_voltages(r)
    \/ next_cycle(limit)

NextMonitor ==
    monitor_steps(StatusReplies, CurrentsReplies, VoltagesReplies, MaxCycles)

SpecMonitor == InitMonitor /\ [][NextMonitor]_vars

\* The monitor over voltages samples that differ in either, both or none of
\* the I2C words; the status and the currents reads always succeed.
MaxI2CCycles == 3

I2CVoltagesReplies ==
    {word_reply(3300, 1200, 1, 7), word_reply(3300, 1200, 2, 7),
     word_reply(3300, 1200, 1, 8), word_reply(3300, 1200, 2, 8),
     word_reply(3400, 1200, 1, 7), timed_out}

InitI2C ==
    /\ started
    /\ event_handlers = <<>>
    /\ custom_conditions =
          register_custom_condition(<<>>, "high_current", "mon0_over_1000",
                                    <<CUSTOM_THRESHOLD>>)

NextI2C ==
    monitor_steps({word_reply(0, 1, 0, 30 * 256 + 1)},
                  {word_reply(0, 0, 0, 2000)}, I2CVoltagesReplies,
                  MaxI2CCycles)

SpecI2C == InitI2C /\ [][NextI2C]_vars


\* the events appended to the history since the cycle began
cycle_events ==
    SubSeq(event_history, cycle.history0 + 1, Len(event_history))

is_status_change(e) == e.event_type = SYSTEM_STATUS_CHANGE

is_custom(e) == e.event_type \in {CUSTOM_THRESHOLD, CUSTOM_CONDITION}

\* the status step of the current cycle is over
status_sampled == cycle.step \notin {"none", "status"}

\* C19: once the status step of a cycle is over, the cycle has emitted one
\* SYSTEM_STATUS_CHANGE event carrying the decoded status if the read
\* succeeded and the status differs from the snapshot the cycle found (or
\* it found none), and no such event otherwise; after a successful read the
\* snapshot is the status read, after a failed one it is what it was; a
\* cycle that reads the status the cycle before read emits no such event.
C19_status_change ==
    status_sampled =>
        LET changes == SelectSeq(cycle_events, is_status_change)
            before == cycle.prev0.system_status
            differs == cycle.status # <<>> /\
                       (before = <<>> \/ cycle.status[1] # before[1])
        IN  /\ Len(changes) = IF differs THEN 1 ELSE 0
            /\ differs => changes[1].data = cycle.status[1]
            /\ prev_state.system_status =
                  IF cycle.status # <<>> THEN cycle.status ELSE before
            /\ (cycle.status # <<>> /\ cycle.status = cycle.previous) =>
                  changes = <<>>

C19_witness ==
    /\ status_sampled
    /\ cycle.n = 2
    /\ cycle.status # <<>>
    /\ cycle.status = cycle.previous
    /\ cycle.status[1].temperature = 30
    /\ Len(SelectSeq(event_history, is_status_change)) = 1
    /\ prev_state.system_status = cycle.status

RECURSIVE events_of(_, _)
\* the events the conditions of a list call for on a currents mapping
events_of(conditions, currents) ==
    IF conditions = <<>> THEN <<>>
    ELSE LET c == conditions[1]
         IN  (IF condition_result(c[2], currents) = "True"
              THEN <<[event_type |-> c[3],
                      data |-> [condition |-> c[1], currents |-> currents]]>>
              ELSE <<>>)
             \o events_of(Tail(conditions), currents)

\* the conditions loop of the current cycle is over, after a currents read
\* that succeeded
conditions_evaluated ==
    cycle.step \in {"voltages", "sleep"} /\ cycle.currents # <<>>

\* C20: in a cycle whose currents read succeeded, once the loop is over each
\* registered condition was evaluated once, in registration order, and the
\* events the cycle emitted for conditions are, in that order, one per
\* condition whose predicate is true on the measurements, of that
\* condition's kind (CUSTOM_CONDITION when registered without one), carrying
\* its name and the measurements, same-named conditions included.
C20_conditions_evaluated ==
    /\ conditions_evaluated =>
          /\ cycle.evaluated = custom_conditions
          /\ SelectSeq(cycle_events, is_custom) =
                events_of(custom_conditions, cycle.currents[1])
    /\ register_custom_condition(<<>>, "high_current", "mon0_over_1000",
                                 <<>>)[1][3] = CUSTOM_CONDITION

C20_witness ==
    /\ conditions_evaluated
    /\ Len(custom_conditions) = 2
    /\ custom_conditions[1][1] = custom_conditions[2][1]
    /\ cycle.evaluated = custom_conditions
    /\ LET events == SelectSeq(cycle_events, is_custom)
       IN  /\ Len(events) = 2
           /\ events[1].event_type = CUSTOM_THRESHOLD
           /\ events[2].event_type = CUSTOM_CONDITION
           /\ events[2].data.condition = "high_current"
           /\ events[2].data.currents.mon0 = 2000

\* a predicate evaluated so far in the current cycle raised
predicate_raised ==
    /\ cycle.currents # <<>>
    /\ \E i \in 1..Len(cycle.evaluated) :
          condition_result(cycle.evaluated[i][2], cycle.currents[1]) = "raise"

\* C21: a predicate that raises ends neither the loop nor the cycle: the
\* cycle stays in the loop until every registered condition was evaluated
\* (each condition registered after the raising one included, emitting its
\* event when its predicate is true), and the cycle then makes its voltages
\* read.
C21_predicate_error_isolated ==
    predicate_raised =>
        /\ cycle.step \in {"conditions", "voltages", "sleep"}
        /\ cycle.step # "conditions" =>
              /\ cycle.evaluated = custom_conditions
              /\ SelectSeq(cycle_events, is_custom) =
                    events_of(custom_conditions, cycle.currents[1])
        /\ cycle.step = "sleep" =>
              cycle.reads[Len(cycle.reads)].address = STATUS_VOLTAGE

C21_witness ==
    /\ predicate_raised
    /\ cycle.step = "sleep"
    /\ Len(custom_conditions) = 2
    /\ custom_conditions[1][2] = "raises"
    /\ cycle.evaluated = custom_conditions
    /\ LET events == SelectSeq(cycle_events, is_custom)
       IN  /\ Len(events) = 1
           /\ events[1].event_type = CUSTOM_CONDITION
           /\ events[1].data.condition = "high_current"
    /\ Len(cycle.reads) = 3
    /\ ~cycle.reads[3].failed

\* C24: a read of the cycle that fails (it returns None or raises) is the
\* last read of its cycle, and the cycle emits no event after it.
C24_failed_read_ends_cycle ==
    \A i \in 1..Len(cycle.reads) :
        (cycle.reads[i].failed \/ cycle.reads[i].raised) =>
            /\ i = Len(cycle.reads)
            /\ Len(event_history) = cycle.reads[i].events

\* C24 (amended): a read of the cycle that raises (the port is not open)
\* is the last read of its cycle, which emits no event after it and goes
\* to sleep; a read that returns None (timeout, bad header, CRC mismatch)
\* skips only its own step: a cycle in which no read raised makes its three
\* reads, of the status, the currents and the voltages, in that order.
C24_raising_read_ends_cycle ==
    /\ \A i \in 1..Len(cycle.reads) :
          cycle.reads[i].raised =>
              /\ i = Len(cycle.reads)
              /\ cycle.step = "sleep"
              /\ Len(event_history) = cycle.reads[i].events
    /\ (cycle.step = "sleep" /\
        \A i \in 1..Len(cycle.reads) : ~cycle.reads[i].raised) =>
          /\ Len(cycle.reads) = 3
          /\ \A i \in 1..3 : cycle.reads[i].address = STATUS_SYSTEM + i - 1

C24_witness ==
    /\ cycle.step = "sleep"
    /\ Len(cycle.reads) = 3
    /\ cycle.reads[1].failed
    /\ ~cycle.reads[1].raised
    /\ ~cycle.reads[2].failed
    /\ Len(event_history) > cycle.reads[1].events

is_i2c(e) == e.event_type \in {I2C0_DATA_RECEIVED, I2C1_DATA_RECEIVED}

\* the voltages read of the current cycle has returned a value and the
\* voltages step is over
voltages_sampled ==
    /\ cycle.step = "sleep"
    /\ Len(cycle.reads) = 3
    /\ ~cycle.reads[3].failed

\* the voltages sample of the current cycle
voltages_sample == read_voltages(cycle.reads[3].value)[1]

\* C22: after a voltages step whose read succeeded, the snapshot is the
\* sample; a cycle that found no snapshot emitted no I2C event; a cycle that
\* found one emitted I2C0_DATA_RECEIVED (channel 0, the new i2c0_rx) exactly
\* when i2c0_rx differs from the snapshot's, and I2C1_DATA_RECEIVED (channel
\* 1, the new i2c1_rx) exactly when i2c1_rx differs, each independently of
\* the other and in that order; a sample that differs only in a voltage
\* emits neither.
C22_i2c_events ==
    voltages_sampled =>
        LET before == cycle.prev0.voltages
            events == SelectSeq(cycle_events, is_i2c)
            sent == [i \in 1..Len(events) |->
                        <<events[i].event_type, events[i].channel,
                          events[i].value>>]
            expected0 ==
                IF before # <<>> /\ voltages_sample.i2c0_rx # before[1].i2c0_rx
                THEN <<<<I2C0_DATA_RECEIVED, 0, voltages_sample.i2c0_rx>>>>
                ELSE <<>>
            expected1 ==
                IF before # <<>> /\ voltages_sample.i2c1_rx # before[1].i2c1_rx
                THEN <<<<I2C1_DATA_RECEIVED, 1, voltages_sample.i2c1_rx>>>>
                ELSE <<>>
        IN  /\ sent = expected0 \o expected1
            /\ prev_state.voltages = <<voltages_sample>>

C22_witness ==
    /\ voltages_sampled
    /\ cycle.n = 2
    /\ cycle.prev0.voltages # <<>>
    /\ cycle.prev0.voltages[1].i2c0_rx = 1
    /\ cycle.prev0.voltages[1].i2c1_rx = 7
    /\ voltages_sample.i2c0_rx = 2
    /\ voltages_sample.i2c1_rx = 8
    /\ Len(SelectSeq(cycle_events, is_i2c)) = 2

\* the call that is over wrote a packet to the stream
packet_sent == \E i \in 1..Len(io) : io[i].call = "write"

\* the call that is over appended exactly one event, of the given kind, with
\* the call's address
one_event(kind) ==
    /\ Len(event_history) = Len(history0) + 1
    /\ SubSeq(event_history, 1, Len(history0)) = history0
    /\ event_history[Len(event_history)].event_type = kind
    /\ event_history[Len(event_history)].register_addr = address

\* C25: with events enabled, a call that sent a packet has emitted exactly
\* one event, REGISTER_WRITE for a write and REGISTER_READ for a read, with
\* the register address.
C25_one_event_per_packet ==
    (call_done /\ enable_events /\ packet_sent) =>
        one_event(IF op = "write" THEN REGISTER_WRITE ELSE REGISTER_READ)

\* C25 (amended): with events enabled, a write that sent its packet has
\* emitted exactly one REGISTER_WRITE event with the address and the value
\* written; a read that returned a value has emitted exactly one
\* REGISTER_READ event with the address and the value returned; a read that
\* returned None, having sent its packet or not, has emitted nothing.
C25_one_event_per_completed_operation ==
    (call_done /\ enable_events) =>
        /\ (op = "write" /\ packet_sent) =>
              /\ one_event(REGISTER_WRITE)
              /\ event_history[Len(event_history)].value = value
        /\ (op = "read" /\ result.status = "value") =>
              /\ packet_sent
              /\ one_event(REGISTER_READ)
              /\ event_history[Len(event_history)].value = result.value
        /\ (op = "read" /\ result.status # "value") =>
              event_history = history0

C25_witness ==
    /\ call_done
    /\ enable_events
    /\ op = "read"
    /\ packet_sent
    /\ result = returned_None
    /\ event_history = history0
    /\ Len(history0) = 1
    /\ history0[1].event_type = REGISTER_READ

(***************************************************************************)
(* Register operations that dispatch their event.  A thread that reaches   *)
(* the emit of write_register or read_register enters _emit_event on its   *)
(* own stack: it takes the lock, appends, and calls the handlers.  One     *)
(* handler is registered for REGISTER_WRITE and one, which calls           *)
(* clear_event_history, for REGISTER_READ.                                 *)
(***************************************************************************)
\* the event of the register operation thread t is in (lines 277-283,
\* 351-357)
transport_event(t) ==
    IF frame[t].op = "write"
    THEN IOEvent(REGISTER_WRITE, frame[t].address, frame[t].value)
    ELSE IOEvent(REGISTER_READ, frame[t].address,
                 struct_unpack_Q(SubSeq(frame[t].response, 2, 9)))

\* lines 276-285 and 350-359: events are enabled, _emit_event is called
th_emit_begin(t) ==
    /\ at(t, "emit")
    /\ enable_events
    /\ emit_event_enter(t, transport_event(t))

\* lines 276, 350: events are not enabled, the operation returns
th_return_without_event(t) ==
    /\ at(t, "emit")
    /\ ~enable_events
    /\ return(t)
    /\ UNCHANGED <<serial, stats, enable_events, event_monitor_running,
                   event_history, caller_only_vars, codec_vars, event_vars,
                   monitor_vars, handed, ended, snapshot, resetting>>

\* clear_event_history (lines 688-692), called between two operations or by
\* the handler the thread is in: it waits for the lock, clears, releases
clear_event_history(t) ==
    /\ event_lock = "free"
    /\ \/ may_call(t) /\ return(t)
       \/ at(t, "handler") /\ goto(t, "dispatch")
    /\ event_history' = <<>>
    /\ UNCHANGED <<outside_events, event_handlers, event_lock, emitted,
                   dispatch, registry_call, registrations>>

InitDispatch ==
    /\ started
    /\ event_handlers =
          [kind \in {REGISTER_WRITE, REGISTER_READ} |->
              IF kind = REGISTER_WRITE THEN <<"on_event">>
              ELSE <<"on_event_clearing_history">>]
    /\ custom_conditions = <<>>

DispatchResponses ==
    {corrupt(device_reply(<<0, 0, 0, 0, 0, 0, 0, 42>>), f) :
        f \in {<<"none", 0, 0>>, <<"short", 4, 0>>}}

NextDispatch ==
    \/ th_write_register_begin("caller", 0, zero)
    \/ th_read_register_begin("caller", 16)
    \/ th_read_register_begin("poller", poller_address(frame["poller"].calls))
    \/ \E t \in Threads :
          \/ th_reset_input_buffer(t)
          \/ th_send(t)
          \/ th_load(t)
          \/ th_store(t)
          \/ \E r \in DispatchResponses : th_recv(t, r)
          \/ th_check(t)
          \/ th_emit_begin(t)
          \/ th_return_without_event(t)
          \/ emit_event_steps(t)
          \/ clear_event_history(t)

SpecDispatch == InitDispatch /\ [][NextDispatch]_vars

\* thread t is in the handler loop of an emit, or in a handler it called
in_dispatch(t) == frame[t].pc \in {"dispatch", "handler"}

\* C29: a handler is invoked by the poller's thread only.
C29_handlers_on_poller ==
    \A t \in Threads :
        (in_dispatch(t) /\ dispatch.invoked # <<>>) => t = "poller"

\* C29 (amended): a handler is invoked by the thread that made the register
\* operation whose event is dispatched, the caller's thread for the caller's
\* operations and the poller's for the reads of its cycle, and always while
\* that thread holds the lock of the event registry, which no other thread
\* holds or takes before the emit has returned.
C29_handlers_on_emitting_thread ==
    \A t \in Threads :
        in_dispatch(t) =>
            /\ event_lock = t
            /\ dispatch.event = <<transport_event(t)>>
            /\ \A u \in Threads \ {t} :
                  frame[u].pc \notin {"evict", "dispatch", "handler"}

C29_witness ==
    /\ in_dispatch("caller")
    /\ frame["caller"].op = "write"
    /\ dispatch.invoked = <<"on_event">>
    /\ event_lock = "caller"
    /\ frame["poller"].pc = "emit"

\* C30: a thread in a handler that calls a method taking the lock of the
\* event registry does not hold that lock itself, so that the call can take
\* it, complete, and let the emit return.
C30_reentry_completes ==
    \A t \in Threads : at(t, "handler") => event_lock # t

(***************************************************************************)
(* The life of the monitor threads: start_event_monitoring and             *)
(* stop_event_monitoring called by the caller's thread, and the loop of    *)
(* each thread they created.  A thread's cycle is three steps, one per     *)
(* register read with what follows it; each _emit_event call of a step     *)
(* runs its handler loop to the end (no handler registered here calls      *)
(* back into the interface).                                               *)
(***************************************************************************)
MaxLifecycleCalls == 2
MaxThreadCycles == 2
MaxFairCalls == 1
MaxFairCycles == 2

\* a thread start() was just called on: it has not tested the flag yet
\* (n: cycles begun; status, found: the status its cycle read and the
\* snapshot that step found; emitted: the events its cycle has emitted)
new_thread ==
    [pc |-> "test", n |-> 0, status |-> <<>>, found |-> <<>>, emitted |-> <<>>]

loop_forever == TRUE

\* line 641: while self._event_monitor_running
loop_condition == event_monitor_running

after_cycle_error_uncaught(exception) == "ended"

\* lines 633-634, 642: the exception is caught and printed, _check_io_changes
\* returns and the loop sleeps
after_cycle_error(exception) == "sleep"

RECURSIVE handlers_run(_, _)
\* lines 564-569: the handler loop of _emit_event from where d has it, to
\* its end or to the first exception that is not caught
handlers_run(list, d) ==
    IF Len(d.invoked) = Len(list) THEN [d EXCEPT !.outcome = "returned"]
    ELSE LET h == next_handler(list, d.invoked)
             exception == handler_exception(h)
         IN  IF exception = <<>> \/ except_Exception(exception[1])
             THEN handlers_run(list,
                      [d EXCEPT !.invoked = Append(@, h),
                                !.errors = IF exception = <<>> THEN @ ELSE @ + 1])
             ELSE [d EXCEPT !.invoked = Append(@, h), !.outcome = "raised"]

\* a whole _emit_event call (lines 557-569): the history it leaves, the
\* dispatch it made, whether it raised
emit_event_call(e, registry, event) ==
    LET d == handlers_run(handlers_get(registry, event.event_type),
                          [no_dispatch EXCEPT
                              !.event = <<event>>,
                              !.registered = handlers_get(registry,
                                                          event.event_type)])
    IN  [history |-> emit_event(e.history, event), dispatch |-> d,
         raised |-> d.outcome = "raised", calls |-> e.calls + 1,
         kinds |-> Append(e.kinds, event.event_type)]

RECURSIVE emit_event_calls(_, _, _)
\* the _emit_event calls of one step, in order, up to one that raises
emit_event_calls(e, registry, events) ==
    IF events = <<>> \/ e.raised THEN e
    ELSE emit_event_calls(emit_event_call(e, registry, events[1]), registry,
                          Tail(events))

\* no _emit_event call made by the step yet
no_emit(history) ==
    [history |-> history, dispatch |-> dispatch, raised |-> FALSE,
     calls |-> 0, kinds |-> <<>>]

RECURSIVE conditions_loop(_, _)
\* lines 592-601: the events of the loop over the conditions, a predicate
\* that raises being caught inside the loop
conditions_loop(conditions, currents) ==
    IF conditions = <<>> THEN <<>>
    ELSE LET c == conditions[1]
             outcome == condition_result(c[2], currents)
         IN  (IF outcome = "True"
              THEN <<condition_event(c[1], c[3], currents)>>
              ELSE <<>>)
             \o (IF after_condition(outcome) = "conditions"
                 THEN conditions_loop(Tail(conditions), currents)
                 ELSE <<>>)

\* a read_register call that received response r, as the cycle sees it: how
\* the response was judged and what the call returned (<<>> is None)
read_of(r) == [outcome |-> check_response(r), value |-> read_value(r)]

\* the counters after the read_register call
stats_of_read(st, r) ==
    stats_after([st EXCEPT !.commands_sent = @ + 1], r.outcome)

history_of_read_reporting_errors(history, a, r) ==
    IF ~enable_events THEN history
    ELSE IF r.outcome = "ok"
    THEN emit_event(history, IOEvent(REGISTER_READ, a, r.value[1]))
    ELSE emit_event(history,
                    IOEvent_data(IF r.outcome = "timeout" THEN UART_TIMEOUT
                                 ELSE UART_CRC_ERROR, a))

\* the history after the read_register call, of address a
history_of_read(history, a, r) ==
    IF enable_events /\ r.outcome = "ok"
    THEN emit_event(history, IOEvent(REGISTER_READ, a, r.value[1]))
    ELSE history

\* what a thread's step leaves alone
outside_threads == <<serial, enable_events, caller_only_vars, codec_vars,
                     thread_vars, event_handlers, event_lock, registry_call,
                     registrations, custom_conditions, cycle>>

\* the step of thread i has made its read and its _emit_event calls (the
\* steps below name their locals with \E over a one-element set, which has
\* TLC compute each of them once)
thread_step_done(i, r, e) ==
    /\ stats' = stats_of_read(stats, r)
    /\ event_history' = e.history
    /\ dispatch' = e.dispatch
    /\ emitted' = emitted + e.calls

\* read_register raised ConnectionError in thread i
thread_step_raised(i) ==
    /\ monitor_threads' =
          [monitor_threads EXCEPT
              ![i].pc = after_cycle_error("ConnectionError")]
    /\ UNCHANGED <<stats, event_history, dispatch, emitted, prev_state>>

RECURSIVE cycles_begun(_)
\* the cycles the given threads have begun, all together
cycles_begun(threads) ==
    IF threads = <<>> THEN 0 ELSE threads[1].n + cycles_begun(Tail(threads))

\* lines 641-642: thread i tests the flag; it begins a cycle or leaves the
\* loop and ends
thread_test(i, limit) ==
    /\ monitor_threads[i].pc = "test"
    /\ loop_condition => cycles_begun(monitor_threads) < limit
    /\ monitor_threads' =
          [monitor_threads EXCEPT
              ![i] = IF loop_condition
                     THEN [new_thread EXCEPT
                              !.pc = "status",
                              !.n = monitor_threads[i].n + 1]
                     ELSE [@ EXCEPT !.pc = "ended"]]
    /\ UNCHANGED <<outside_threads, event_monitor_running, lifecycle_call,
                   stats, event_history, dispatch, emitted, prev_state>>

\* lines 578-586 in thread i
thread_status(i, r) ==
    /\ monitor_threads[i].pc = "status"
    /\ IF ~stream_open THEN thread_step_raised(i)
       ELSE \E status \in {read_system_status(r.value)} :
            \E changed \in {status_changed(status, prev_state.system_status)} :
            \E e \in {emit_event_calls(
                         no_emit(history_of_read(event_history, STATUS_SYSTEM, r)),
                         event_handlers,
                         IF changed
                         THEN <<IOEvent_data(SYSTEM_STATUS_CHANGE, status[1])>>
                         ELSE <<>>)} :
                /\ thread_step_done(i, r, e)
                /\ prev_state' =
                      IF changed /\ ~e.raised
                      THEN [prev_state EXCEPT !.system_status = status]
                      ELSE prev_state
                /\ monitor_threads' =
                      [monitor_threads EXCEPT
                          ![i].pc = IF e.raised
                                    THEN after_cycle_error("RuntimeError")
                                    ELSE "currents",
                          ![i].status = status,
                          ![i].found = prev_state.system_status,
                          ![i].emitted = @ \o e.kinds]
    /\ UNCHANGED <<outside_threads, event_monitor_running, lifecycle_call>>

\* lines 589-603 in thread i
thread_currents(i, r) ==
    /\ monitor_threads[i].pc = "currents"
    /\ IF ~stream_open THEN thread_step_raised(i)
       ELSE \E currents \in {read_currents(r.value)} :
            \E e \in {emit_event_calls(
                         no_emit(history_of_read(event_history, STATUS_CURRENT, r)),
                         event_handlers,
                         IF currents # <<>>
                         THEN conditions_loop(custom_conditions, currents[1])
                         ELSE <<>>)} :
                /\ thread_step_done(i, r, e)
                /\ prev_state' =
                      IF currents # <<>> /\ ~e.raised
                      THEN [prev_state EXCEPT !.currents = currents]
                      ELSE prev_state
                /\ monitor_threads' =
                      [monitor_threads EXCEPT
                          ![i].pc = IF e.raised
                                    THEN after_cycle_error("RuntimeError")
                                    ELSE "voltages",
                          ![i].emitted = @ \o e.kinds]
    /\ UNCHANGED <<outside_threads, event_monitor_running, lifecycle_call>>

\* lines 606-630 in thread i
thread_voltages(i, r) ==
    /\ monitor_threads[i].pc = "voltages"
    /\ IF ~stream_open THEN thread_step_raised(i)
       ELSE \E voltages \in {read_voltages(r.value)} :
            \E changed \in {voltages # <<>> /\ voltages # prev_state.voltages} :
            \E e \in {emit_event_calls(
                         no_emit(history_of_read(event_history, STATUS_VOLTAGE, r)),
                         event_handlers,
                         IF changed /\ prev_state.voltages # <<>>
                         THEN i2c_events(voltages[1], prev_state.voltages[1])
                         ELSE <<>>)} :
                /\ thread_step_done(i, r, e)
                /\ prev_state' =
                      IF changed /\ ~e.raised
                      THEN [prev_state EXCEPT !.voltages = voltages]
                      ELSE prev_state
                /\ monitor_threads' =
                      [monitor_threads EXCEPT
                          ![i].pc = IF e.raised
                                    THEN after_cycle_error("RuntimeError")
                                    ELSE "sleep",
                          ![i].emitted = @ \o e.kinds]
    /\ UNCHANGED <<outside_threads, event_monitor_running, lifecycle_call>>

\* line 643: the sleep is over
thread_sleep(i) ==
    /\ monitor_threads[i].pc = "sleep"
    /\ monitor_threads' = [monitor_threads EXCEPT ![i].pc = "test"]
    /\ UNCHANGED <<outside_threads, event_monitor_running, lifecycle_call,
                   stats, event_history, dispatch, emitted, prev_state>>

\* what the caller's calls of this section leave alone
outside_lifecycle == <<serial, stats, enable_events, event_history,
                       caller_only_vars, codec_vars, handed, ended, snapshot,
                       resetting, event_vars, custom_conditions, cycle>>

start_event_monitoring_unconditional(limit) ==
    /\ at("caller", "idle")
    /\ frame["caller"].calls < limit
    /\ lifecycle_call' = [name |-> "start", running |-> event_monitor_running,
                          threads |-> Len(monitor_threads),
                          outcome |-> "returned"]
    /\ event_monitor_running' = TRUE
    /\ monitor_threads' = Append(monitor_threads, new_thread)
    /\ return("caller")
    /\ UNCHANGED <<outside_lifecycle, prev_state>>

start_event_monitoring_fresh_state(limit) ==
    /\ at("caller", "idle")
    /\ frame["caller"].calls < limit
    /\ lifecycle_call' = [name |-> "start", running |-> event_monitor_running,
                          threads |-> Len(monitor_threads),
                          outcome |-> "returned"]
    /\ event_monitor_running' = TRUE
    /\ monitor_threads' = IF ~event_monitor_running
                          THEN Append(monitor_threads, new_thread)
                          ELSE monitor_threads
    /\ prev_state' = IF ~event_monitor_running THEN no_previous_state
                     ELSE prev_state
    /\ return("caller")
    /\ UNCHANGED outside_lifecycle

\* start_event_monitoring (lines 646-655)
start_event_monitoring(limit) ==
    /\ at("caller", "idle")
    /\ frame["caller"].calls < limit
    /\ lifecycle_call' = [name |-> "start", running |-> event_monitor_running,
                          threads |-> Len(monitor_threads),
                          outcome |-> "returned"]
    /\ event_monitor_running' = TRUE
    /\ monitor_threads' = IF ~event_monitor_running
                          THEN Append(monitor_threads, new_thread)
                          ELSE monitor_threads
    /\ return("caller")
    /\ UNCHANGED <<outside_lifecycle, prev_state>>

\* stop_event_monitoring, lines 659-662: the flag is cleared and join is
\* called on the last thread created; or the flag was clear (line 659)
stop_event_monitoring(limit) ==
    /\ at("caller", "idle")
    /\ frame["caller"].calls < limit
    /\ lifecycle_call' = [name |-> "stop", running |-> event_monitor_running,
                          threads |-> Len(monitor_threads),
                          outcome |-> IF event_monitor_running /\
                                         monitor_threads # <<>>
                                      THEN "joining" ELSE "returned"]
    /\ event_monitor_running' = FALSE
    /\ IF event_monitor_running /\ monitor_threads # <<>>
       THEN goto("caller", "join")
       ELSE return("caller")
    /\ UNCHANGED <<outside_lifecycle, prev_state, monitor_threads>>

\* line 662: the thread has ended and join returns
join_returns ==
    /\ at("caller", "join")
    /\ monitor_threads[Len(monitor_threads)].pc = "ended"
    /\ lifecycle_call' = [lifecycle_call EXCEPT !.outcome = "joined"]
    /\ return("caller")
    /\ UNCHANGED <<outside_lifecycle, prev_state, monitor_threads,
                   event_monitor_running>>

\* line 662: the 2.0 seconds are over, the thread has not ended, and join
\* returns
join_times_out ==
    /\ at("caller", "join")
    /\ monitor_threads[Len(monitor_threads)].pc # "ended"
    /\ lifecycle_call' = [lifecycle_call EXCEPT !.outcome = "timed_out"]
    /\ return("caller")
    /\ UNCHANGED <<outside_lifecycle, prev_state, monitor_threads,
                   event_monitor_running>>

LifecycleVoltagesReads ==
    {read_of(word_reply(3300, 1200, 1, 7)), read_of(word_reply(3300, 1200, 2, 7)),
     read_of(timed_out),
     read_of(corrupt(word_reply(3300, 1200, 1, 7), <<"header", 1, 0>>)),
     read_of(corrupt(word_reply(3300, 1200, 1, 7), <<"trailer", 1, 0>>))}

LifecycleStatusReads == {read_of(word_reply(0, 1, 0, 30 * 256 + 1))}

LifecycleCurrentsReads == {read_of(word_reply(0, 0, 0, 2000))}

FairStatusReads ==
    {read_of(word_reply(0, 1, 0, 30 * 256 + 1)), read_of(timed_out)}

FairVoltagesReads == {read_of(word_reply(3300, 1200, 1, 7))}

\* the object after __init__, or after open(), which has started the monitor
\* when events are enabled (lines 178-179); a handler that raises and one
\* that returns are registered for SYSTEM_STATUS_CHANGE, an error tracker
\* for UART_CRC_ERROR and UART_TIMEOUT (as io_line_events_example.py lines
\* 290-291 do), and a condition whose predicate raises before one whose
\* predicate is true
InitLifecycle ==
    /\ \E stream \in {"open", "None"} :
          /\ interface_state(stream, stream = "open" /\ enable_events,
                             no_cycle,
                             IF stream = "open" /\ enable_events
                             THEN <<new_thread>> ELSE <<>>)
          /\ stream = "None" => ~enable_events
    /\ event_handlers =
          [kind \in {SYSTEM_STATUS_CHANGE, UART_CRC_ERROR, UART_TIMEOUT} |->
              IF kind = SYSTEM_STATUS_CHANGE
              THEN <<"on_event_raising", "on_event">>
              ELSE <<"on_error">>]
    /\ custom_conditions =
          register_custom_condition(
              register_custom_condition(<<>>, "broken", "raises", <<>>),
              "high_current", "mon0_over_1000", <<>>)

\* the steps of the i-th thread created, its reads ending as in the given
\* sets
thread_steps(i, status_reads, currents_reads, voltages_reads, limit) ==
    /\ i \in 1..Len(monitor_threads)
    /\ \/ thread_test(i, limit)
       \/ \E r \in status_reads : thread_status(i, r)
       \/ \E r \in currents_reads : thread_currents(i, r)
       \/ \E r \in voltages_reads : thread_voltages(i, r)
       \/ thread_sleep(i)

\* the calls of the caller's thread
lifecycle_calls(limit) ==
    \/ start_event_monitoring(limit)
    \/ stop_event_monitoring(limit)
    \/ join_returns
    \/ join_times_out

NextLifecycle ==
    \/ lifecycle_calls(MaxLifecycleCalls)
    \/ \E i \in 1..(MaxLifecycleCalls + 1) :
          thread_steps(i, LifecycleStatusReads, LifecycleCurrentsReads,
                       LifecycleVoltagesReads, MaxThreadCycles)

SpecLifecycle == InitLifecycle /\ [][NextLifecycle]_vars

\* a step of the i-th thread in the specification with fairness
fair_thread_steps(i) ==
    thread_steps(i, FairStatusReads, LifecycleCurrentsReads,
                 FairVoltagesReads, MaxFairCycles)

NextLifecycleFair ==
    \/ lifecycle_calls(MaxFairCalls)
    \/ \E i \in 1..(MaxFairCalls + 1) : fair_thread_steps(i)

\* Every thread that can take a step eventually takes one (its reads time
\* out, its sleep ends), and join returns when the thread has ended or the
\* timeout is over.
SpecLifecycleFair ==
    /\ InitLifecycle
    /\ [][NextLifecycleFair]_vars
    /\ \A i \in 1..(MaxFairCalls + 1) : WF_vars(fair_thread_steps(i))
    /\ WF_vars(join_returns \/ join_times_out)

\* the last start/stop_event_monitoring call has returned
lifecycle_call_returned ==
    lifecycle_call.name # "none" /\ at("caller", "idle")

\* C26: start_event_monitoring called with the flag set creates no thread
\* and leaves the flag set; called with the flag clear it sets the flag and
\* creates one thread; stop_event_monitoring called with the flag clear
\* leaves it clear, waits for no thread, and no thread is created.  So a
\* second start in a row, or a second stop in a row, changes nothing.
C26_start_stop_idempotent ==
    lifecycle_call_returned =>
        /\ lifecycle_call.name = "start" =>
              /\ event_monitor_running
              /\ Len(monitor_threads) =
                    lifecycle_call.threads +
                    (IF lifecycle_call.running THEN 0 ELSE 1)
        /\ lifecycle_call.name = "stop" =>
              /\ ~event_monitor_running
              /\ Len(monitor_threads) = lifecycle_call.threads
              /\ ~lifecycle_call.running => lifecycle_call.outcome = "returned"

C26_witness ==
    /\ lifecycle_call_returned
    /\ frame["caller"].calls = 2
    /\ lifecycle_call.name = "start"
    /\ lifecycle_call.running
    /\ lifecycle_call.threads = 1
    /\ Len(monitor_threads) = 1
    /\ monitor_threads[1].pc = "currents"
    /\ event_monitor_running

\* thread i has emitted, in the cycle it is in or has just made, an event of
\* one of the kinds
has_emitted(i, kinds) ==
    \E k \in 1..Len(monitor_threads[i].emitted) :
        monitor_threads[i].emitted[k] \in kinds

\* the status step of the cycle thread i is in is over and its read
\* succeeded
thread_status_sampled(i) ==
    /\ monitor_threads[i].n >= 1
    /\ monitor_threads[i].pc # "status"
    /\ monitor_threads[i].status # <<>>

\* C28: a thread created by a start that follows a stop begins with no
\* snapshot: in its first cycle a status read that succeeds emits
\* SYSTEM_STATUS_CHANGE, and no I2C event is emitted.
C28_restart_resamples ==
    \A i \in 2..Len(monitor_threads) :
        monitor_threads[i].n = 1 =>
            /\ thread_status_sampled(i) => has_emitted(i, {SYSTEM_STATUS_CHANGE})
            /\ ~has_emitted(i, {I2C0_DATA_RECEIVED, I2C1_DATA_RECEIVED})

\* C28 (amended): the snapshots are made with the object and are kept over
\* stop and start: once a SYSTEM_STATUS_CHANGE event is in the history the
\* status snapshot is the status of the last such event, whatever calls
\* were made since; the status step of any thread, the first cycle of a
\* thread created after a stop included, emits SYSTEM_STATUS_CHANGE exactly
\* when the status read differs from the snapshot it finds.
C28_snapshots_kept ==
    /\ LET changes == SelectSeq(event_history, is_status_change)
       IN  changes # <<>> =>
              prev_state.system_status = <<changes[Len(changes)].data>>
    /\ \A i \in 1..Len(monitor_threads) :
          thread_status_sampled(i) =>
              (has_emitted(i, {SYSTEM_STATUS_CHANGE})
                 <=> monitor_threads[i].status # monitor_threads[i].found)

C28_witness ==
    /\ Len(monitor_threads) = 2
    /\ monitor_threads[1].pc = "ended"
    /\ lifecycle_call.name = "start"
    /\ monitor_threads[2].n = 1
    /\ thread_status_sampled(2)
    /\ monitor_threads[2].status = monitor_threads[2].found
    /\ ~has_emitted(2, {SYSTEM_STATUS_CHANGE})
    /\ has_emitted(2, {I2C0_DATA_RECEIVED})

\* every thread created has left its loop
all_threads_ended ==
    \A i \in 1..Len(monitor_threads) : monitor_threads[i].pc = "ended"

\* C27: stop_event_monitoring clears the flag and its wait for the thread
\* ends, the thread having ended or not; a thread begins a cycle only when
\* it finds the flag set; and once the flag is clear every thread ends,
\* unless the flag is set again.
C27_stop_ends_threads ==
    /\ at("caller", "join") ~> at("caller", "idle")
    /\ [][\A i \in 1..Len(monitor_threads) :
             monitor_threads'[i].n # monitor_threads[i].n =>
                 event_monitor_running]_vars
    /\ ~event_monitor_running ~> (event_monitor_running \/ all_threads_ended)

C27_witness ==
    /\ at("caller", "idle")
    /\ lifecycle_call.name = "stop"
    /\ lifecycle_call.outcome = "timed_out"
    /\ ~event_monitor_running
    /\ monitor_threads[1].pc = "voltages"
    /\ stats.commands_sent = 2

\* C23: a thread that is in its k-th cycle or past it, whatever the cycle
\* met (a read that timed out or raised, a predicate or a handler that
\* raised), begins another cycle, unless the flag is cleared (or the cycles
\* the model allows are used up).
C23_monitoring_continues ==
    \A i \in 1..(MaxFairCalls + 1), k \in 1..MaxFairCycles :
        (/\ i <= Len(monitor_threads)
         /\ monitor_threads[i].n = k
         /\ monitor_threads[i].pc # "ended")
        ~> (\/ ~event_monitor_running
            \/ i <= Len(monitor_threads) /\ monitor_threads[i].n > k
            \/ cycles_begun(monitor_threads) >= MaxFairCycles)

C23_witness ==
    /\ event_monitor_running
    /\ Len(monitor_threads) = 1
    /\ monitor_threads[1].n = 2
    /\ monitor_threads[1].pc = "currents"
    /\ dispatch.errors = 1
    /\ stats.timeouts = 1

\* thread t is inside _emit_event, past the append
in_emit(t) == frame[t].pc \in {"evict", "dispatch", "handler"}

\* C31: the append of an event and the calls of its handlers are one step
\* for the other threads: while a thread is inside _emit_event no other
\* thread is, the event it dispatches is still the last of the history, and
\* an event is appended only when the handler loop of the event before it
\* has ended.
C31_emit_atomic ==
    /\ [](\A t \in Threads :
            in_emit(t) =>
                /\ \A u \in Threads \ {t} : ~in_emit(u)
                /\ event_history # <<>>
                /\ event_history[Len(event_history)] = dispatch.event[1])
    /\ [][emitted' # emitted =>
             /\ \A t \in Threads : ~in_emit(t)
             /\ dispatch.event # <<>> => dispatch.outcome # "none"]_vars

C31_witness ==
    /\ in_emit("poller")
    /\ at("caller", "emit")
    /\ frame["caller"].op = "read"
    /\ Len(event_history) = 2
    /\ event_history[1].event_type = REGISTER_WRITE
    /\ dispatch.event[1].event_type = REGISTER_READ

\* the threads created that have begun a sampling cycle and not left their
\* loop
polling_threads ==
    {i \in 1..Len(monitor_threads) :
        monitor_threads[i].n >= 1 /\ monitor_threads[i].pc # "ended"}

\* C32: whatever start and stop calls were made, while the flag is set at
\* most one thread created by start_event_monitoring is alive and making
\* sampling cycles.
C32_one_poller ==
    event_monitor_running => Cardinality(polling_threads) <= 1

\* the commands sent that no counter of an answer accounts for
unanswered(st) ==
    st.commands_sent - (st.responses_received + st.crc_errors + st.timeouts)

\* the register call that has just ended was a write that sent its packet,
\* or a read whose response had a bad header
write_or_bad_header ==
    \/ op = "write" /\ result = returned_True
    \/ op = "read" /\ result = returned_None /\
          check_response(response) = "header"

\* C33: the three counters of answers never add up to more than
\* commands_sent; a register call that has ended has raised the difference
\* by one when it was a write or a read ending with a bad header and has
\* left it alone otherwise; and between two register calls the difference
\* changes only by being reset to zero.
C33_unanswered_commands ==
    /\ [](unanswered(stats) >= 0)
    /\ [](pc = "done" =>
             unanswered(stats) =
                unanswered(stats0) + (IF write_or_bad_header THEN 1 ELSE 0))
    /\ [][pc = "idle" /\ pc' = "idle" =>
             \/ stats' = stats
             \/ unanswered(stats') = 0 /\ stats'.commands_sent = 0]_vars

C33_witness ==
    /\ pc = "done"
    /\ ncalls = 2
    /\ op = "read"
    /\ check_response(response) = "header"
    /\ unanswered(stats0) = 1
    /\ unanswered(stats) = 2
    /\ stats.commands_sent = 2

\* the kinds of the events the interface builds itself (lines 279, 353, 581,
\* 613, 623)
built_in_kinds ==
    {REGISTER_WRITE, REGISTER_READ, SYSTEM_STATUS_CHANGE, I2C0_DATA_RECEIVED,
     I2C1_DATA_RECEIVED}

\* the kinds the registered conditions were given
condition_kinds ==
    {custom_conditions[k][3] : k \in 1..Len(custom_conditions)}

\* this step is a read_register call that sent its request and did not
\* return a value
read_failed ==
    /\ stats'.commands_sent = stats.commands_sent + 1
    /\ stats'.responses_received = stats.responses_received

\* C34: every event of the history has one of the five kinds the interface
\* builds itself or the kind of a registered condition; the event dispatched
\* last is of such a kind too, so that the handlers registered for
\* UART_TIMEOUT and UART_CRC_ERROR are not invoked; and a read that ends in a
\* timeout, a bad header or a CRC error appends no event and makes no
\* _emit_event call.
C34_event_kinds ==
    /\ [](\A k \in 1..Len(event_history) :
            event_history[k].event_type \in built_in_kinds \cup condition_kinds)
    /\ [](/\ dispatch.event # <<>> =>
               dispatch.event[1].event_type \in
                   built_in_kinds \cup condition_kinds
          /\ ~contains(dispatch.invoked, "on_error"))
    /\ [][read_failed =>
             /\ event_history' = event_history
             /\ emitted' = emitted
             /\ dispatch' = dispatch]_vars

C34_witness ==
    /\ handlers_get(event_handlers, UART_TIMEOUT) = <<"on_error">>
    /\ handlers_get(event_handlers, UART_CRC_ERROR) = <<"on_error">>
    /\ stats.timeouts = 1
    /\ stats.crc_errors = 1
    /\ stats.commands_sent = 6
    /\ Len(event_history) >= 5
    /\ event_history[2].event_type = SYSTEM_STATUS_CHANGE

(***************************************************************************)
(* get_event_history: the caller emits events of two kinds, each with its  *)
(* own value, and reads the history back with a kind and a limit, given or *)
(* not; it may then change the list it was handed.                         *)
(***************************************************************************)
MaxQueryEmits == 3

\* get_event_history(event_type, limit) (lines 677-686): what it returned
\* and the history it found
get_event_history_call(t, event_type, limit) ==
    /\ at(t, "idle")
    /\ event_lock = "free"
    /\ history_call' =
          [name |-> "get_event_history", event_type |-> event_type,
           limit |-> limit, history |-> event_history,
           returned |-> get_event_history(event_history, event_type, limit)]
    /\ UNCHANGED <<transport_vars, crc_in, crc_out, spi_call, eeprom,
                   beyond_vars>>

\* the caller removes the last element of the list it was handed, which is
\* a list of its own (lines 678, 681, 684)
returned_list_pop(t) ==
    /\ at(t, "idle")
    /\ history_call.returned # <<>>
    /\ history_call' =
          [history_call EXCEPT
              !.name = "pop",
              !.returned = SubSeq(@, 1, Len(@) - 1)]
    /\ UNCHANGED <<transport_vars, crc_in, crc_out, spi_call, eeprom,
                   beyond_vars>>

InitQuery ==
    /\ started
    /\ event_handlers = [kind \in {REGISTER_WRITE} |-> <<"on_event">>]
    /\ custom_conditions = <<>>

NextQuery ==
    \/ \E kind \in EventKinds :
          emit_event_append("caller",
                            IOEvent(kind, 0, int_value(emitted + 1)),
                            MaxQueryEmits)
    \/ emit_event_steps("caller")
    \/ \E event_type \in {<<>>} \cup {<<kind>> : kind \in EventKinds},
          limit \in {<<>>} \cup {<<n>> : n \in 0..(MaxQueryEmits + 1)} :
          get_event_history_call("caller", event_type, limit)
    \/ returned_list_pop("caller")

SpecQuery == InitQuery /\ [][NextQuery]_vars

\* the events of a history that are of the kind asked for
matching(history, event_type) ==
    LET keep(e) == e.event_type = event_type[1]
    IN  IF event_type = <<>> THEN history ELSE SelectSeq(history, keep)

\* the last n elements of a list, all of them when it has fewer
last_n(list, n) ==
    IF n >= Len(list) THEN list ELSE SubSeq(list, Len(list) - n + 1, Len(list))

\* C35: get_event_history returns the events of the kind asked for, in the
\* order of the history; without a limit all of them; with a limit n >= 0
\* the last n of them, so at most n; and what the caller does to the list
\* returned leaves the history alone.
C35_get_event_history ==
    /\ [](history_call.name = "get_event_history" =>
            LET all == matching(history_call.history, history_call.event_type)
            IN  IF history_call.limit = <<>>
                THEN history_call.returned = all
                ELSE /\ history_call.returned = last_n(all, history_call.limit[1])
                     /\ Len(history_call.returned) <= history_call.limit[1])
    /\ [][history_call'.name = "pop" => event_history' = event_history]_vars

(***************************************************************************)
(* write_spi (lines 427-442) on the single-thread transport: the call      *)
(* reads register CTRL_SPI_DATA back with read_register and, when that     *)
(* returns, merges the data into the value and writes it.                  *)
(***************************************************************************)
MaxSpiCalls == 2

\* RegisterAddress.CTRL_SPI_DATA
CTRL_SPI_DATA == 3

\* v & 0xFFFFFFFF as four digits, the least significant first
and_FFFFFFFF(v) == [i \in 1..4 |-> digit(and_FFFFFFFFFFFFFFFF(v).mag, i - 1)]

\* lines 437-440: the value written, from the data and the value read back
spi_value(channel, data, current) ==
    IF channel = 0
    THEN py_int(FALSE, and_FFFFFFFF(current) \o and_FFFFFFFF(data))
    ELSE py_int(FALSE,
                and_FFFFFFFF(data) \o
                [i \in 1..4 |-> digit(and_FFFFFFFFFFFFFFFF(current).mag, i + 3)])

\* write_spi(channel, data) is called
write_spi_begin(channel, data, limit) ==
    /\ between_calls
    /\ spi_call.pc # "read"
    /\ spi_call.calls < limit
    /\ spi_call' = [pc |-> "read", channel |-> channel, data |-> data,
                    outcome |-> pending, sent |-> <<>>,
                    calls |-> spi_call.calls + 1]
    /\ UNCHANGED <<transport_vars, crc_in, crc_out, history_call, eeprom,
                   beyond_vars>>

\* line 435: self.read_register(RegisterAddress.CTRL_SPI_DATA)
write_spi_read(limit) ==
    /\ spi_call.pc = "read"
    /\ read_register_begin(CTRL_SPI_DATA, limit)

\* line 435: read_register raised; write_spi catches nothing, so the
\* exception leaves write_spi and nothing after line 435 is executed
write_spi_raised ==
    /\ spi_call.pc = "read"
    /\ pc = "done"
    /\ result.status \notin {"pending", "None", "True", "value"}
    /\ spi_call' = [spi_call EXCEPT
                       !.pc = "done",
                       !.outcome = result,
                       !.sent = SelectSeq(io, LAMBDA c : c.call = "write")]
    /\ UNCHANGED <<serial, stats, enable_events, event_monitor_running,
                   event_history, crc_in, crc_out, history_call, eeprom,
                   beyond_vars>>
    /\ leave_call

NextSpi ==
    \/ spi_call.pc # "read" /\ open
    \/ spi_call.pc # "read" /\ close
    \/ \E channel \in {0, 1}, data \in SomeValues :
          write_spi_begin(channel, data, MaxSpiCalls)
    \/ write_spi_read(MaxSpiCalls)
    \/ write_spi_raised

SpecSpi == Init /\ [][NextSpi]_vars

\* C36: a write_spi call made with the stream open has returned without
\* raising, and has handed the stream exactly one WRITE packet for register
\* 0x03, whose value has the data (mod 2^32) in the half of the channel.
C36_write_spi ==
    (spi_call.pc = "done" /\ serial = "open") =>
        /\ spi_call.outcome.status \in {"None", "True", "value"}
        /\ Len(spi_call.sent) = 1
        /\ LET p == spi_call.sent[1].arg
               expected == write_packet(CTRL_SPI_DATA,
                               spi_value(spi_call.channel, spi_call.data, zero))
               half == IF spi_call.channel = 0 THEN 3..6 ELSE 7..10
           IN  /\ p[1] = WRITE
               /\ p[2] = CTRL_SPI_DATA
               /\ \A i \in half : p[i] = expected[i]

(***************************************************************************)
(* open() and close() with the monitor threads: open() may fail, close()   *)
(* stops the monitor as stop_event_monitoring does and then closes the     *)
(* stream, whether the thread has ended or not.  A read of a thread is one *)
(* step: a stream call on a closed stream raises, so a read_register that  *)
(* passed the check of line 306 before the stream was closed hands the     *)
(* stream nothing, as one that fails the check.                            *)
(***************************************************************************)
MaxOpenCloseCalls == 2
MaxOpenCloseCycles == 2

\* what open() and close() leave alone
outside_open_close == <<stats, enable_events, event_history, caller_only_vars,
                        codec_vars, handed, ended, snapshot, resetting,
                        event_vars, custom_conditions, cycle, prev_state>>

\* open() (lines 163-182): serial.Serial(...) succeeds, or raises
\* SerialException, which open() turns into ConnectionError before
\* self.serial is assigned and before the monitor is started
open_call(succeeds, limit) ==
    /\ at("caller", "idle")
    /\ frame["caller"].calls < limit
    /\ lifecycle_call' = [name |-> "open", running |-> event_monitor_running,
                          threads |-> Len(monitor_threads),
                          outcome |-> IF succeeds THEN "returned" ELSE "raised"]
    /\ serial' = IF succeeds THEN "open" ELSE serial
    /\ event_monitor_running' =
          (event_monitor_running \/ (succeeds /\ enable_events))
    /\ monitor_threads' =
          IF succeeds /\ enable_events /\ ~event_monitor_running
          THEN Append(monitor_threads, new_thread)
          ELSE monitor_threads
    /\ return("caller")
    /\ UNCHANGED outside_open_close

close_call_without_stop(limit) ==
    /\ at("caller", "idle")
    /\ frame["caller"].calls < limit
    /\ lifecycle_call' = [name |-> "close", running |-> event_monitor_running,
                          threads |-> Len(monitor_threads),
                          outcome |-> "closing"]
    /\ goto("caller", "close_stream")
    /\ UNCHANGED <<outside_open_close, serial, monitor_threads,
                   event_monitor_running>>

\* close(), lines 187-189: a running monitor is stopped as
\* stop_event_monitoring does it (lines 659-662)
close_call(limit) ==
    /\ at("caller", "idle")
    /\ frame["caller"].calls < limit
    /\ lifecycle_call' = [name |-> "close", running |-> event_monitor_running,
                          threads |-> Len(monitor_threads),
                          outcome |-> IF event_monitor_running /\
                                         monitor_threads # <<>>
                                      THEN "joining" ELSE "closing"]
    /\ event_monitor_running' = FALSE
    /\ IF event_monitor_running /\ monitor_threads # <<>>
       THEN goto("caller", "close_join")
       ELSE goto("caller", "close_stream")
    /\ UNCHANGED <<outside_open_close, serial, monitor_threads>>

\* line 662 called from close(): the thread has ended, or the 2.0 seconds
\* are over
close_join_ends ==
    /\ at("caller", "close_join")
    /\ lifecycle_call' =
          [lifecycle_call EXCEPT
              !.outcome = IF monitor_threads[Len(monitor_threads)].pc = "ended"
                          THEN "joined" ELSE "timed_out"]
    /\ goto("caller", "close_stream")
    /\ UNCHANGED <<outside_open_close, serial, monitor_threads,
                   event_monitor_running>>

\* lines 191-193: the stream is closed when there is one and it is open
close_stream ==
    /\ at("caller", "close_stream")
    /\ serial' = IF stream_open THEN "closed" ELSE serial
    /\ return("caller")
    /\ UNCHANGED <<outside_open_close, lifecycle_call, monitor_threads,
                   event_monitor_running>>

\* the object after __init__ (lines 127-161)
InitOpenClose ==
    /\ interface_state("None", FALSE, no_cycle, <<>>)
    /\ event_handlers = <<>>
    /\ custom_conditions = <<>>

NextOpenClose ==
    \/ \E succeeds \in BOOLEAN : open_call(succeeds, MaxOpenCloseCalls)
    \/ close_call(MaxOpenCloseCalls)
    \/ close_join_ends
    \/ close_stream
    \/ \E i \in 1..(MaxOpenCloseCalls + 1) :
          thread_steps(i, LifecycleStatusReads, LifecycleCurrentsReads,
                       FairVoltagesReads, MaxOpenCloseCycles)

SpecOpenClose == InitOpenClose /\ [][NextOpenClose]_vars

\* this step is open() returning or raising
open_returns ==
    lifecycle_call' # lifecycle_call /\ lifecycle_call'.name = "open"

\* C37: open() sets the flag and creates a thread exactly when the stream
\* opened and events are enabled (and the flag was clear), and an open()
\* that failed changes neither the flag nor the threads nor the stream;
\* close() closes the stream only with the flag clear, that is after it has
\* stopped the monitor; and while the stream is closed no thread sends a
\* request.
C37_open_close_monitor ==
    /\ [][open_returns =>
             /\ lifecycle_call'.outcome = "returned" =>
                   /\ serial' = "open"
                   /\ event_monitor_running' =
                         (event_monitor_running \/ enable_events)
                   /\ Len(monitor_threads') =
                         Len(monitor_threads) +
                         (IF enable_events /\ ~event_monitor_running
                          THEN 1 ELSE 0)
             /\ lifecycle_call'.outcome = "raised" =>
                   /\ serial' = serial
                   /\ event_monitor_running' = event_monitor_running
                   /\ monitor_threads' = monitor_threads]_vars
    /\ [][serial = "open" /\ serial' = "closed" => ~event_monitor_running]_vars
    /\ [][serial = "closed" /\ serial' = "closed" =>
             stats'.commands_sent = stats.commands_sent]_vars

C37_witness ==
    /\ serial = "closed"
    /\ at("caller", "idle")
    /\ lifecycle_call.name = "close"
    /\ lifecycle_call.outcome = "timed_out"
    /\ ~event_monitor_running
    /\ monitor_threads[1].pc = "sleep"
    /\ stats.commands_sent = 1

RECURSIVE crc8_bitwise(_, _, _)
\* the bitwise CRC-8 (polynomial 0x07, MSB first, no final XOR) of data from
\* the value crc, with n shift steps made for each byte
crc8_bitwise(crc, data, n) ==
    IF data = <<>> THEN crc
    ELSE crc8_bitwise(shift_steps(xor(crc, data[1]), n), Tail(data), n)

\* C38: _calculate_crc returns the standard CRC-8 of the sequence
\* (polynomial 0x07, initial value 0x00, MSB first, no final XOR), the
\* algorithm making eight shift steps for each byte.
C38_standard_crc8 ==
    crc_out # -1 => crc_out = crc8_bitwise(0, crc_in, 8)

\* C38 (amended): _calculate_crc returns what the bitwise algorithm with
\* polynomial 0x07, initial value 0x00, MSB first and no final XOR yields
\* when it makes one shift step for each byte instead of eight; it agrees
\* with the standard CRC-8 on the empty sequence.
C38_one_step_crc8 ==
    crc_out # -1 =>
        /\ crc_out = crc8_bitwise(0, crc_in, 1)
        /\ crc_in = <<>> => crc_out = crc8_bitwise(0, crc_in, 8)

C38_witness ==
    /\ crc_in = <<1, 128>>
    /\ crc_out = 3
    /\ crc8_bitwise(0, crc_in, 8) # crc_out

(***************************************************************************)
(* The EEPROM image tool (src/tools/eeprom_programmer.py): an EEPROMImage  *)
(* object has LUTs set, saves the image it builds to a file, the data      *)
(* region of one LUT of the file may be altered, and verify() reads the    *)
(* file.  32-bit values are four bytes, the least significant first; the   *)
(* LUT entries set are small enough to be plain integers.                  *)
(***************************************************************************)
\* entries of the lists handed to set_lut
MaxLutData == 1

\* EEPROMImage.FORMAT_VERSION, DESCRIPTOR_ADDR; the default of size_bytes
FORMAT_VERSION == 1
DESCRIPTOR_ADDR == 16
size_bytes == 32768

\* EEPROMImage.MAGIC_NUMBER, b'LFPG'
MAGIC_NUMBER == <<76, 70, 80, 71>>

\* lut_addresses of build() and verify(): LUT0_ADDR .. LUT3_ADDR
lut_addresses == <<48, 1072, 2096, 3120>>

\* x >> 1 for a 32-bit x
shift_right_1(x) ==
    <<(x[1] \div 2) + (x[2] % 2) * 128, (x[2] \div 2) + (x[3] % 2) * 128,
      (x[3] \div 2) + (x[4] % 2) * 128, x[4] \div 2>>

\* x ^ y for 32-bit x, y
xor32(x, y) == <<xor(x[1], y[1]), xor(x[2], y[2]), xor(x[3], y[3]), xor(x[4], y[4])>>

RECURSIVE crc32_entry(_, _)
\* entry of the table of zlib's CRC-32 (reflected polynomial 0xEDB88320):
\* n more steps on c
crc32_entry(c, n) ==
    IF n = 0 THEN c
    ELSE crc32_entry(IF c[1] % 2 = 1
                     THEN xor32(shift_right_1(c), <<32, 131, 184, 237>>)
                     ELSE shift_right_1(c),
                     n - 1)

crc32_table == [b \in 0..255 |-> crc32_entry(<<b, 0, 0, 0>>, 8)]

\* one byte taken into the running CRC-32:
\* table[(crc ^ byte) & 0xFF] ^ (crc >> 8)
crc32_byte(crc, byte) ==
    xor32(crc32_table[xor(crc[1], byte)], <<crc[2], crc[3], crc[4], 0>>)

RECURSIVE crc32_range(_, _, _, _)
\* the bytes data[lo..hi] taken into the running CRC-32, in order: the first
\* half is computed before the second half is entered
crc32_range(crc, data, lo, hi) ==
    IF lo > hi THEN crc
    ELSE IF lo = hi THEN crc32_byte(crc, data[lo])
    ELSE LET first_half == crc32_range(crc, data, lo, (lo + hi) \div 2)
         IN  IF Len(first_half) = 4
             THEN crc32_range(first_half, data, (lo + hi) \div 2 + 1, hi)
             ELSE first_half

\* crc32(data), lines 22-24: zlib.crc32(data) & 0xFFFFFFFF
crc32(data) ==
    xor32(crc32_range(<<255, 255, 255, 255>>, data, 1, Len(data)),
          <<255, 255, 255, 255>>)

\* pack_u32_be of a 32-bit value held as four bytes (lines 26-28)
pack_u32_be(x) == <<x[4], x[3], x[2], x[1]>>

\* pack_u32_be(value) for an integer 0 <= value < 2^31
pack_u32_be_int(v) ==
    <<v \div 16777216, (v \div 65536) % 256, (v \div 256) % 256, v % 256>>

\* pack_u16_be(value) for an integer 0 <= value (lines 30-32)
pack_u16_be(v) == <<(v \div 256) % 256, v % 256>>

\* struct.unpack('>I', b)[0] and struct.unpack('>H', b)[0]
unpack_u32_be(b) == <<b[4], b[3], b[2], b[1]>>

unpack_u16_be(b) == b[1] * 256 + b[2]

\* data[a:b] of a bytes object (index from 0), b not below a
slice(data, a, b) ==
    SubSeq(data, a + 1, IF b > Len(data) THEN Len(data) ELSE b)

\* image[a:a+len(bytes)] = bytes
slice_assign(image, a, bytes) ==
    SubSeq(image, 1, a) \o bytes \o SubSeq(image, a + Len(bytes) + 1, Len(image))

\* __init__ (lines 51-66)
EEPROMImage_init ==
    /\ eeprom.pc = "none"
    /\ eeprom' = [pc |-> "object",
                  luts |-> <<<<>>, <<>>, <<>>, <<>>>>,
                  lut_types |-> <<0, 1, 2, 3>>,
                  image |-> [k \in 1..size_bytes |-> 0],
                  file |-> <<>>,
                  altered |-> <<>>,
                  verified |-> <<>>]
    /\ UNCHANGED <<transport_vars, crc_in, crc_out, history_call, spi_call,
                   beyond_vars>>

\* set_lut(lut_index, data) (lines 68-89) with an index in 0..3 and at most
\* 256 entries; lut_type is left None
set_lut(lut_index, data) ==
    /\ eeprom.pc = "object"
    /\ eeprom' = [eeprom EXCEPT
                    !.luts[lut_index + 1] =
                        <<[k \in 1..256 |->
                              IF k <= Len(data) THEN data[k] ELSE 0]>>]
    /\ UNCHANGED <<transport_vars, crc_in, crc_out, history_call, spi_call,
                   beyond_vars>>

\* the LUT indices set
luts_set(luts) == {i \in 0..3 : luts[i + 1] # <<>>}

\* lines 129-131: the entries packed one after the other
lut_bytes(lut) ==
    [k \in 1..(4 * Len(lut)) |->
        pack_u32_be_int(lut[((k - 1) \div 4) + 1])[((k - 1) % 4) + 1]]

\* lines 104-114: the header written
build_header(image, num_luts) ==
    LET head == MAGIC_NUMBER \o <<FORMAT_VERSION, num_luts>> \o
                pack_u16_be(num_luts * 256 * 4)
    IN  slice_assign(image, 0, head \o pack_u32_be(crc32(head)))

RECURSIVE build_luts(_, _, _, _)
\* lines 119-145: the loop over the four LUTs, from index i on
build_luts(image, luts, lut_types, i) ==
    IF i > 3 THEN image
    ELSE IF luts[i + 1] = <<>> THEN build_luts(image, luts, lut_types, i + 1)
    ELSE LET lut_data == lut_bytes(luts[i + 1][1])
             descriptor == pack_u16_be(256) \o <<4, lut_types[i + 1]>> \o
                           pack_u32_be(crc32(lut_data))
         IN  build_luts(
                 slice_assign(
                     slice_assign(image, DESCRIPTOR_ADDR + i * 8, descriptor),
                     lut_addresses[i + 1], lut_data),
                 luts, lut_types, i + 1)

\* build() (lines 91-147) with at least one LUT set
build(image, luts, lut_types) ==
    build_luts(build_header(image, Cardinality(luts_set(luts))), luts,
               lut_types, 0)

\* save(filename) (lines 149-154); build() raises ValueError when no LUT is
\* set and nothing is written
save ==
    /\ eeprom.pc = "object"
    /\ luts_set(eeprom.luts) # {}
    /\ \E image \in {build(eeprom.image, eeprom.luts, eeprom.lut_types)} :
          eeprom' = [eeprom EXCEPT !.pc = "saved", !.image = image,
                                   !.file = image]
    /\ UNCHANGED <<transport_vars, crc_in, crc_out, history_call, spi_call,
                   beyond_vars>>

\* the file is changed outside the tool: the first byte of the data region
\* of LUT i gets its lowest bit inverted
alter_lut(i) ==
    /\ eeprom.pc = "saved"
    /\ eeprom' = [eeprom EXCEPT
                    !.pc = "altered",
                    !.altered = <<i>>,
                    !.file[lut_addresses[i + 1] + 1] = flip_bit(@, 0)]
    /\ UNCHANGED <<transport_vars, crc_in, crc_out, history_call, spi_call,
                   beyond_vars>>

\* lines 187-199: the stored checksum of descriptor i against the checksum
\* of the bytes the descriptor gives the length of
lut_crc_matches(data, i) ==
    LET desc_addr == DESCRIPTOR_ADDR + i * 8
        data_addr == lut_addresses[i + 1]
        lut_size == unpack_u16_be(slice(data, desc_addr, desc_addr + 2))
        lut_width == data[desc_addr + 2 + 1]
        lut_crc_stored == unpack_u32_be(slice(data, desc_addr + 4, desc_addr + 8))
        lut_data == slice(data, data_addr, data_addr + lut_size * lut_width)
    IN  lut_crc_stored = crc32(lut_data)

\* line 186: for i in range(num_luts)
verify_indices(num_luts) == 0..(num_luts - 1)

\* verify(filename) (lines 156-206) on the bytes of the file
verify(data) ==
    /\ slice(data, 0, 4) = MAGIC_NUMBER
    /\ data[4 + 1] = FORMAT_VERSION
    /\ unpack_u32_be(slice(data, 8, 12)) = crc32(slice(data, 0, 8))
    /\ \A i \in verify_indices(data[5 + 1]) : lut_crc_matches(data, i)

verify_call ==
    /\ eeprom.pc \in {"saved", "altered"}
    /\ \E accepted \in {verify(eeprom.file)} :
          eeprom' = [eeprom EXCEPT !.pc = "verified", !.verified = <<accepted>>]
    /\ UNCHANGED <<transport_vars, crc_in, crc_out, history_call, spi_call,
                   beyond_vars>>

RECURSIVE lut_list(_, _)
\* a list of n entries for index i
lut_list(i, n) ==
    IF n = 0 THEN <<>> ELSE Append(lut_list(i, n - 1), 16 * (i + 1) + n)

\* the lists set_lut is called with for index i
LutData(i) == {lut_list(i, n) : n \in 1..MaxLutData}

NextEeprom ==
    \/ EEPROMImage_init
    \/ \E i \in 0..3 : \E data \in LutData(i) : set_lut(i, data)
    \/ save
    \/ \E i \in 0..3 : alter_lut(i)
    \/ verify_call

\* the tool runs on its own: no interface object takes part
InitEeprom == Init /\ ~enable_events

SpecEeprom == InitEeprom /\ [][NextEeprom]_vars

\* C39: whatever LUTs were set (at least one), verify accepts the file that
\* save wrote; and when the data region of one of the LUTs set was altered
\* in the file, so that its checksum is no longer the one its descriptor
\* stores, verify returns False.
C39_verify_checks_every_lut ==
    eeprom.pc = "verified" =>
        /\ eeprom.altered = <<>> => eeprom.verified = <<TRUE>>
        /\ (/\ eeprom.altered # <<>>
            /\ eeprom.altered[1] \in luts_set(eeprom.luts)
            /\ ~lut_crc_matches(eeprom.file, eeprom.altered[1]))
           => eeprom.verified = <<FALSE>>

====
